---- MODULE Spec2Model ----
(***************************************************************************)
(* Streaming multipart/form-data request builder                           *)
(* (src/http/request/multipart_channel/multipart_channel.go, signalReader  *)
(* variant).  Three kinds of goroutine run per request: the callers that   *)
(* append items, the encoding worker that drains bodyCh into a             *)
(* multipart.Writer over an io.Pipe, and the transport goroutine that      *)
(* Send launches and that reads the pipe through the signalReader.         *)
(*                                                                         *)
(* io.Pipe, mime/multipart.Writer and http.Client.Do are the Go standard   *)
(* library; they are modelled by what they do at the calls the source      *)
(* makes: a pipe write blocks until reads have taken all its bytes or the  *)
(* pipe is closed; CloseWithError keeps the first error; the request body  *)
(* is the signalReader wrapped in a no-op closer (it has no Close method), *)
(* so the transport cannot close the read side of the pipe.                *)
(***************************************************************************)
EXTENDS Integers, Sequences, FiniteSets, TLC

VARIABLES
    script,     \* per caller goroutine: the kinds of the items it appends
    cpc,        \* per caller goroutine: number of its enqueue calls completed
    bodyCh,     \* buffered channel m.bodyCh: the queued requests
    bodyClosed, \* close(m.bodyCh) has happened
    enqueued,   \* history: the requests in the order their sends completed
    wpc,        \* worker position: "recv", "head", "body", "done"
    cur,        \* the request the worker is processing
    nread,      \* content chunks of cur the worker has read so far
    creads,     \* history: key of the item whose content each Read call was on
    taken,      \* history: keys of the requests the worker has dequeued
    failures,   \* history: the errors the worker's encodes ended with
    wg,         \* m.wg counter
    mw,         \* multipart.Writer: boundary, lastpart, lastpart's write error
    header,     \* m.req.Header: header name -> value
    hcalls,     \* history: the Header calls completed, [name, value]
    fcalls,     \* history: the Param/Bool/Int calls made, with their arguments
    late,       \* Param/File calls made after Send was invoked, so far
    rejected,   \* history: keys of the calls that panicked on the channel
    wq,         \* pipe: write calls in progress, head holds the write lock
    pdone,      \* pipe: done channel closed
    pwerr,      \* pipe: error stored by the write side (first one wins)
    started,    \* number of times startedCh has been closed
    once,       \* signalReader.once has run
    readers,    \* goroutines calling Read on the signalReader side by side
    tr,         \* transport call: "idle", "running", "returned"
    rd,         \* body reader: "idle", "inRead", "eof", "err", "stopped"
    bodyErr,    \* error client.Do got from a read of the request body
    respCh,     \* result channel for responses (capacity 1)
    errCh,      \* result channel for errors (capacity 1)
    spc,        \* Send position
    result,     \* what Send returned: [resp, err]
    delivered,  \* history: bytes the consumer has read from the pipe
    written,    \* history: bytes handed to pipe writes, in write-call order
    builder,    \* the file-writing Builder of main.go and its goroutines
    race,       \* demonstrateRaceCondition and its goroutines
    conc,       \* demonstrateConcurrentError and its goroutines
    delay,      \* the Builder / Request that starts client.Do in its constructor
    again,      \* a second call of Multipart.Send and its transport goroutine
    eq          \* one Multipart of each implementation, run in step

vars == <<script, cpc, bodyCh, bodyClosed, enqueued, wpc, cur, nread, creads,
          taken, failures, wg, mw, header, hcalls, fcalls, late, rejected, wq,
          pdone, pwerr, started, once, readers, tr, rd, bodyErr, respCh,
          errCh, spc, result, delivered, written, builder, race, conc,
          delay, again, eq>>

----------------------------------------------------------------------------
(* Bounds *)

MaxItems == 3        \* items appended in a run with mixed item kinds
MaxGateReads == 2    \* reads each of the side-by-side readers performs
MaxCalls == 3        \* Param/Bool/Int calls chained on one builder
MaxLate == 2         \* Param/File calls made after Send was invoked

(* Program constants *)

BodyChCap == 100     \* make(chan request, 100)

Callers == {"A", "B"}
Kinds == {"param", "file", "badfile"}
Boundaries == {"b1", "b2"}
Readers == {"r1", "r2", "r3"}

----------------------------------------------------------------------------
(* Errors and items *)

Err(kind, key) == [kind |-> kind, key |-> key]
NoKey == <<"", 0>>
NoErr == Err("nil", NoKey)
EOF == Err("EOF", NoKey)
ErrClosedPipe == Err("ErrClosedPipe", NoKey)
ErrTransport == Err("transport", NoKey)
ErrContent(key) == Err("content", key)

NoResp == "nil"
Resp == "response"

\* the content stream of a File item: chunks it yields, then EOF or an error
Content(kind) ==
    CASE kind = "file"    -> [chunks |-> 1, fails |-> FALSE]
      [] kind = "badfile" -> [chunks |-> 1, fails |-> TRUE]
      [] OTHER            -> [chunks |-> 0, fails |-> FALSE]

stringType == "stringType"
fileType == "fileType"

\* request{reqType, key, value, content}; keys are distinct per call
request(c, i, kind) ==
    [reqType |-> IF kind = "param" THEN stringType ELSE fileType,
     key |-> <<c, i>>,
     content |-> Content(kind)]

NoRequest == [reqType |-> "none", key |-> NoKey, content |-> Content("param")]

----------------------------------------------------------------------------
(* Wire bytes: one token per run of bytes that a read can split at *)

Tok(t, k, n) == [t |-> t, k |-> k, n |-> n]

\* multipart.Writer.CreatePart: delimiter (with a leading CRLF after the
\* first part) and the Content-Disposition header, in one write
PartHeader(w, req) ==
    << Tok("delim", <<w.boundary, IF w.lastpart THEN 1 ELSE 0>>, 0),
       Tok("disp", req.key, IF req.reqType = fileType THEN 1 ELSE 0) >>

\* the bytes of a field value, or of the n-th chunk of a content stream
Data(req, n) == << Tok("data", req.key, n) >>

\* (variant: nothing is written when the writer is closed)
Trailer_Missing(w) == <<>>

\* multipart.Writer.Close: the terminating boundary
Trailer(w) == << Tok("close", <<w.boundary, 1>>, 0) >>

\* (variant: the header names a boundary the writer does not use)
FormDataContentType_Other(w) ==
    [media |-> "multipart/form-data",
     boundary |-> CHOOSE b \in Boundaries : b # w.boundary]

\* multipart.Writer.FormDataContentType: the media type with the writer's
\* boundary as its parameter
FormDataContentType(w) ==
    [media |-> "multipart/form-data", boundary |-> w.boundary]

----------------------------------------------------------------------------
(* The caller programs *)

SeqUpTo(S, n) == UNION {[1..k -> S] : k \in 0..n}

\* chains of mixed items issued by one or two goroutines before Send
ShortScripts ==
    {s \in [Callers -> SeqUpTo(Kinds, MaxItems)] :
        Len(s["A"]) + Len(s["B"]) <= MaxItems}

\* one goroutine chaining more Param calls than the queue and the worker hold
ChainLen == BodyChCap + 2
LongChain == [c \in Callers |->
                 IF c = "A" THEN [i \in 1..ChainLen |-> "param"] ELSE <<>>]

Scripts == ShortScripts \cup {LongChain}

CallersDone == \A c \in Callers : cpc[c] = Len(script[c])

----------------------------------------------------------------------------
(* The file-writing Builder: NewBuilder, with the chain of String / JSON   *)
(* calls its caller is going to make.  "badjson" is a JSON call with a     *)
(* value json.Marshal rejects.                                             *)

BuilderKinds == {"string", "json", "badjson"}

\* (variant: the worker does not close the pipe)
WorkerDefers_NoPwClose == <<"wg.Done", "mw.Close">>

\* the deferred calls of Builder.worker, in the order they are registered
WorkerDefers == <<"wg.Done", "mw.Close", "pw.Close">>

NoData == [FileType |-> "none", key |-> NoKey, marshals |-> TRUE]

NewBuilder(chain) ==
    [chain    |-> chain,     \* kinds of the String / JSON calls to come
     calls    |-> 0,         \* String / JSON calls completed
     appended |-> <<>>,      \* history: the Data values sent on b.ch
     closed   |-> FALSE,     \* close(b.ch) has happened
     bpc      |-> "open",    \* caller: "open", "wait" (in Build), "returned"
     wpc      |-> "recv",    \* worker: "recv", "head", "body", "defers", "done"
     data     |-> NoData,    \* the Data the worker is processing
     defers   |-> WorkerDefers,  \* deferred calls the worker has yet to run
     wg       |-> 2,         \* b.wg: the copying goroutine and the worker
     mw       |-> [boundary |-> "b1", lastpart |-> FALSE, we |-> NoErr],
     inWrite  |-> FALSE,     \* pipe: a write of the worker is in progress
     pending  |-> <<>>,      \* pipe: bytes of that write not yet read
     pdone    |-> FALSE,     \* pipe: closed
     pwerr    |-> NoErr,     \* pipe: error stored by the write side
     stats    |-> [string |-> 0, json |-> 0],   \* b.stats (absent key = 0)
     cp       |-> "read",    \* copying goroutine: "read", "write", "done"
     cbuf     |-> <<>>,      \* bytes io.Copy has read and not yet written
     output   |-> <<>>,      \* content of output.multipart
     written  |-> <<>>]      \* history: bytes handed to pipe writes

----------------------------------------------------------------------------
(* The Builder of multipart.go and the Request that differs from it by its *)
(* Header method: the constructor starts the worker and client.Do, sleeps  *)
(* and returns; String / JSON hand Data values to the worker over an       *)
(* unbuffered channel; the request body is the pipe reader itself.         *)

\* the Builder / Request as the constructor returns it, with the chain of
\* calls its caller is going to make before Send.  The sleep orders
\* nothing: the transport goroutine may have run any part of client.Do.
NewRequest(chain) ==
    [chain     |-> chain,
     calls     |-> 0,        \* calls of the chain completed
     appended  |-> <<>>,     \* history: the Data values sent on r.ch
     hcalls    |-> <<>>,     \* history: the Header calls
     failed    |-> <<>>,     \* history: items whose encoding met an error
     cpc       |-> "open",   \* caller: "open", "wait", "mwClose", "select",
                             \* "returned"
     chClosed  |-> FALSE,    \* close(r.ch) has happened
     wpc       |-> "recv",   \* worker: "recv", "head", "body", "done"
     data      |-> NoData,   \* the Data the worker is processing
     wg        |-> 1,
     mw        |-> [boundary |-> "b1", lastpart |-> FALSE, we |-> NoErr],
     inWrite   |-> FALSE,    \* pipe: a write is in progress
     pending   |-> <<>>,     \* pipe: bytes of that write not yet read
     wclosed   |-> FALSE,    \* pipe: closed by r.pw.Close()
     rclosed   |-> FALSE,    \* pipe: closed by the transport (pr.Close())
     tpc       |-> "start",  \* client.Do: "start", "hdr" (reading the
                             \* header map), "body", "eof", "returned"
     header    |-> [h \in {"Content-Type"} |->
                      FormDataContentType([boundary |-> "b1"])],
     sent      |-> [h \in {"Content-Type"} |->
                      FormDataContentType([boundary |-> "b1"])],
                             \* the headers client.Do put on the wire
     crashed   |-> FALSE,    \* the runtime stopped the program
     respCh    |-> <<>>,
     errCh     |-> <<>>,
     result    |-> [resp |-> NoResp, err |-> NoErr],
     delivered |-> <<>>]     \* history: body bytes client.Do has read

----------------------------------------------------------------------------
(* demonstrateRaceCondition of the advanced demo: three goroutines write   *)
(* to one multipart.Writer over a pipe, a fourth closes it when they are   *)
(* done, and main collects their errors before it sends the request.       *)

Writers == {1, 2, 3}
Closer == 4

\* the state when main() of the demo starts
NotStarted ==
    [main     |-> "intro",   \* main goroutine: "intro", "spawn", "collect",
                             \* "do" (in client.Do), "done"
     spawned  |-> 0,         \* goroutines started so far (the closer is 4th)
     w        |-> [i \in Writers |->
                     [pc |-> "unborn", phase |-> "header"]],
     closer   |-> "unborn",  \* "unborn", "ready", "waiting", "mwClose",
                             \* "mwWriting", "done"
     wg       |-> 0,         \* the WaitGroup counter
     errChan  |-> <<>>,      \* buffered channel of capacity 3
     errClosed |-> FALSE,
     errors   |-> 0,         \* errors main has collected
     lock     |-> 0,         \* pipe write mutex: 0 free, else its holder
     pending  |-> <<>>,      \* pipe: bytes of the write in progress
     pdone    |-> FALSE,     \* pipe: closed
     lastpart |-> FALSE,     \* mw has a current part
     captured |-> <<>>,      \* bytes read through the TeeReader
     giveUp   |-> FALSE]     \* client.Do has run into its 5 s timeout

----------------------------------------------------------------------------
(* demonstrateConcurrentError of the basic demo: three goroutines call     *)
(* WriteField / CreateFormFile on one multipart.Writer over a pipe that    *)
(* client.Do reads; a fourth closes the writer and the pipe when they are  *)
(* done.                                                                   *)

\* the state when client.Do is called: all four goroutines are started
ConcStart ==
    [w        |-> [i \in Writers |->
                     [pc |-> "sleep",       \* "sleep", "create", "lockwait",
                                            \* "writing", "content", "done"
                      phase |-> "header",   \* the pipe write it is at
                      lead |-> 0,           \* 1 if its delimiter follows a part
                      res |-> "none"]],     \* what its calls reported
     lastpart |-> 0,         \* mw.lastpart: 0 nil, else the writer it is of
     ever     |-> {0},       \* the values mw.lastpart has held
     closed   |-> {},        \* parts whose closed flag is set
     closer   |-> "waiting", \* "waiting", "mwClose", "mwWriting", "done"
     wg       |-> 3,
     lock     |-> 0,         \* pipe write mutex: 0 free, else its holder
     pending  |-> <<>>,      \* pipe: bytes of the write in progress
     wclosed  |-> FALSE,     \* pipe: closed by pw.Close()
     rclosed  |-> FALSE,     \* pipe: closed by the transport (pr.Close())
     reader   |-> "reading", \* client.Do: "reading", "eof", "failed"
     body     |-> <<>>]      \* history: bytes client.Do has read

----------------------------------------------------------------------------
(* io.Pipe *)

Push(q, who, d) == Append(q, [who |-> who, data |-> d])
Without(q, who) == SelectSeq(q, LAMBDA e : e.who # who)
InWrite(who) == \E i \in 1..Len(wq) : wq[i].who = who

\* (variant: a buffered pipe, where a write returns before it is read)
WriteDone_Early(who) == wq # <<>> /\ Head(wq).who = who

\* all bytes of the write have been taken by reads
WriteDone(who) == wq # <<>> /\ Head(wq).who = who /\ Head(wq).data = <<>>

\* (variant: a write pending on a closed pipe is never woken)
WriteReturns_OnlyWhenRead(who) == WriteDone(who)

\* PipeWriter.Write returns: everything was read, or the pipe is closed
WriteReturns(who) == WriteDone(who) \/ (pdone /\ InWrite(who))
WriteErr(who) == IF WriteDone(who) THEN NoErr ELSE ErrClosedPipe

\* (variant: every Store overwrites the error)
StoreOnce_LastWins(old, err) == err

\* onceError.Store: only the first error is kept
StoreOnce(old, err) == IF old = NoErr THEN err ELSE old

\* pipe.readCloseError: the write side's error (EOF after a clean Close)
ReadCloseError == IF pwerr # NoErr THEN pwerr ELSE ErrClosedPipe

\* no second call of Send has been made
NotAgain ==
    [spc   |-> "idle",    \* "idle", "awaitStart", "wgWait", "panicked"
     tr    |-> "idle",    \* the second client.Do: "idle", "running", "returned"
     rd    |-> "idle",    \* its read of the body: "idle", "eof", "err"
     respCh |-> <<>>,
     errCh |-> <<>>]

----------------------------------------------------------------------------
(* The two Multipart implementations of multipart_channel.go side by side: *)
(* the one with the signalReader and the one with the Reader and a private *)
(* close().  Each is a record; the operators below take the record and     *)
(* branch on its impl field where the code of the two differs.             *)

\* a Multipart as NewMultipart of implementation impl returns it, and the
\* chain of calls that is going to be made on it before Send
MNew(impl, chain) ==
    [impl       |-> impl,
     chain      |-> chain,
     calls      |-> 0,
     bodyCh     |-> <<>>,
     bodyClosed |-> FALSE,
     wpc        |-> "recv",
     cur        |-> NoRequest,
     nread      |-> 0,
     wg         |-> 1,
     mw         |-> [boundary |-> "b1", lastpart |-> FALSE, we |-> NoErr],
     header     |-> [h \in {"Content-Type"} |->
                       FormDataContentType([boundary |-> "b1"])],
     wq         |-> <<>>,
     pdone      |-> FALSE,
     pwerr      |-> NoErr,
     started    |-> 0,
     once       |-> FALSE,
     tr         |-> "idle",
     rd         |-> "idle",
     bodyErr    |-> NoErr,
     respCh     |-> <<>>,
     errCh      |-> <<>>,
     spc        |-> "open",
     result     |-> [resp |-> NoResp, err |-> NoErr],
     delivered  |-> <<>>,    \* history: bytes the transport has read
     aborted    |-> <<>>]    \* history: the item the worker aborted at

\* one Multipart of each implementation, with no call to come
NoPair == [s |-> MNew("signalReader", <<>>), r |-> MNew("Reader", <<>>)]

----------------------------------------------------------------------------
(* NewMultipart *)

FreshMultipart ==
    /\ cpc = [c \in Callers |-> 0]
    /\ bodyCh = <<>>
    /\ bodyClosed = FALSE
    /\ enqueued = <<>>
    /\ wpc = "recv"
    /\ cur = NoRequest
    /\ nread = 0
    /\ creads = <<>>
    /\ taken = <<>>
    /\ failures = <<>>
    /\ wg = 1
    /\ \E b \in Boundaries : mw = [boundary |-> b, lastpart |-> FALSE, we |-> NoErr]
    /\ header = [h \in {"Content-Type"} |-> FormDataContentType(mw)]
    /\ hcalls = <<>>
    /\ fcalls = <<>>
    /\ late = 0
    /\ rejected = <<>>
    /\ wq = <<>>
    /\ pdone = FALSE
    /\ pwerr = NoErr
    /\ started = 0
    /\ once = FALSE
    /\ readers = [k \in Readers |-> [pc |-> "idle", n |-> 0]]
    /\ tr = "idle"
    /\ rd = "idle"
    /\ bodyErr = NoErr
    /\ respCh = <<>>
    /\ errCh = <<>>
    /\ spc = "open"
    /\ result = [resp |-> NoResp, err |-> NoErr]
    /\ delivered = <<>>
    /\ written = <<>>

\* a Multipart builder as NewMultipart returns it; the other programs of
\* the repository have not run
Fresh ==
    /\ FreshMultipart
    /\ builder = NewBuilder(<<>>)
    /\ race = NotStarted
    /\ conc = ConcStart
    /\ delay = NewRequest(<<>>)
    /\ again = NotAgain
    /\ eq = NoPair

\* a new builder, and the calls the caller goroutines are going to chain
Init ==
    /\ script \in Scripts
    /\ Fresh

----------------------------------------------------------------------------
(* Param / Bool / Int / Float / File: m.bodyCh <- request{...} *)

Enqueue(c) ==
    /\ spc = "open"
    /\ cpc[c] < Len(script[c])
    /\ script[c][cpc[c] + 1] \in Kinds
    /\ Len(bodyCh) < BodyChCap
    /\ LET req == request(c, cpc[c] + 1, script[c][cpc[c] + 1])
       IN /\ bodyCh' = Append(bodyCh, req)
          /\ enqueued' = Append(enqueued, req)
    /\ cpc' = [cpc EXCEPT ![c] = @ + 1]
    /\ UNCHANGED <<script, bodyClosed, wpc, cur, nread, creads, taken,
                   failures, wg, mw, header, hcalls, fcalls, late, rejected,
                   wq, pdone, pwerr, started, once, readers, tr, rd, bodyErr,
                   respCh, errCh, spc, result, delivered, written, builder,
                   race, conc, delay, again, eq>>

----------------------------------------------------------------------------
(* Multipart.worker *)

\* (variant: the loop takes the newest queued request instead of the oldest)
Dequeue_Newest(ch) == [req |-> ch[Len(ch)], rest |-> SubSeq(ch, 1, Len(ch) - 1)]

\* for req := range m.bodyCh
Dequeue(ch) == [req |-> Head(ch), rest |-> Tail(ch)]

\* io.Copy's next read of the content stream after n chunks
CopyStep(req, n) ==
    IF n < req.content.chunks THEN "chunk"
    ELSE IF req.content.fails THEN "error" ELSE "eof"

\* the loop takes the next request and CreatePart writes its header
WorkerRecv ==
    /\ wpc = "recv"
    /\ bodyCh # <<>>
    /\ LET d == Dequeue(bodyCh)
       IN /\ cur' = d.req
          /\ bodyCh' = d.rest
          /\ taken' = Append(taken, d.req.key)
          /\ wq' = Push(wq, "worker", PartHeader(mw, d.req))
          /\ written' = written \o PartHeader(mw, d.req)
    /\ nread' = 0
    /\ wpc' = "head"
    /\ UNCHANGED <<script, cpc, bodyClosed, enqueued, creads, failures, wg,
                   mw, header, hcalls, fcalls, late, rejected, pdone, pwerr,
                   started, once, readers, tr, rd, bodyErr, respCh, errCh,
                   spc, result, delivered, builder, race, conc, delay, again,
                   eq>>

\* the range loop ends on the closed, drained channel; defer m.wg.Done()
WorkerExit ==
    /\ wpc = "recv"
    /\ bodyCh = <<>>
    /\ bodyClosed
    /\ wpc' = "done"
    /\ wg' = wg - 1
    /\ UNCHANGED <<script, cpc, bodyCh, bodyClosed, enqueued, cur, nread,
                   creads, taken, failures, mw, header, hcalls, fcalls, late,
                   rejected, wq, pdone, pwerr, started, once, readers, tr, rd,
                   bodyErr, respCh, errCh, spc, result, delivered, written,
                   builder, race, conc, delay, again, eq>>

\* where the encoding of cur stands when a pipe write has returned err:
\* another write to do ("chunk"), the item is complete ("eof"), or it failed
ItemStep(err) ==
    IF err # NoErr THEN "error"
    ELSE IF cur.reqType = stringType
         THEN (IF wpc = "head" THEN "chunk" ELSE "eof")
         ELSE CopyStep(cur, nread)

\* io.Copy calls Read on the content of cur after each write that went
\* through (the header's, then each chunk's); a failed write ends the copy
ContentRead(err) == cur.reqType = fileType /\ err = NoErr

\* the err the switch leaves: the write error, else the content read error
EncodeErr(err) == IF err # NoErr THEN err ELSE ErrContent(cur.key)

\* (variant: the error is dropped and the loop goes on, as with "continue")
AbortOn_Never(err) == FALSE

\* if err != nil { m.pw.CloseWithError(err); return }
AbortOn(err) == err # NoErr

\* a pipe write of the worker returns; WriteField / CreateFormFile / io.Copy
\* go on with the next write or finish the item, and the loop either takes
\* the next request or aborts the pipe and returns
WorkerStep ==
    /\ wpc \in {"head", "body"}
    /\ WriteReturns("worker")
    /\ LET err == WriteErr("worker")
           q == Without(wq, "worker")
           next == ItemStep(err)
       IN /\ mw' = IF wpc = "head"
                   THEN (IF err = NoErr
                         THEN [mw EXCEPT !.lastpart = TRUE, !.we = NoErr]
                         ELSE mw)
                   ELSE [mw EXCEPT !.we = err]
          /\ creads' = IF ContentRead(err) THEN Append(creads, cur.key)
                       ELSE creads
          /\ failures' = IF next = "error"
                         THEN Append(failures, EncodeErr(err))
                         ELSE failures
          /\ IF next = "chunk"
             THEN /\ wq' = Push(q, "worker", Data(cur, nread + 1))
                  /\ written' = written \o Data(cur, nread + 1)
                  /\ nread' = nread + 1
                  /\ wpc' = "body"
                  /\ UNCHANGED <<pdone, pwerr, wg>>
             ELSE IF next = "error" /\ AbortOn(EncodeErr(err))
             THEN /\ wq' = q
                  /\ pdone' = TRUE
                  /\ pwerr' = StoreOnce(pwerr, EncodeErr(err))
                  /\ wpc' = "done"
                  /\ wg' = wg - 1
                  /\ UNCHANGED <<written, nread>>
             ELSE /\ wq' = q
                  /\ wpc' = "recv"
                  /\ UNCHANGED <<written, nread, pdone, pwerr, wg>>
    /\ UNCHANGED <<script, cpc, bodyCh, bodyClosed, enqueued, cur, taken,
                   header, hcalls, fcalls, late, rejected, started, once,
                   readers, tr, rd, bodyErr, respCh, errCh, spc, result,
                   delivered, builder, race, conc, delay, again, eq>>

----------------------------------------------------------------------------
(* signalReader.Read and the transport goroutine of Send *)

\* (variant: the error branch misses its return and falls through)
Deliver_FallThrough(resp, err) ==
    [respCh |-> Append(respCh, resp),
     errCh |-> IF err # NoErr THEN Append(errCh, err) ELSE errCh]

\* the goroutine's branch on client.Do's result: one value on one channel
Deliver(resp, err) ==
    IF err # NoErr
    THEN [respCh |-> respCh, errCh |-> Append(errCh, err)]
    ELSE [respCh |-> Append(respCh, resp), errCh |-> errCh]

\* (variant: the channel is closed on every call)
OnceDo_Always == [once |-> TRUE, started |-> started + 1]

\* r.once.Do(func() { close(r.startedCh) })
OnceDo == [once |-> TRUE, started |-> IF once THEN started ELSE started + 1]

\* the transport calls Read on the request body: the gate fires on entry,
\* before the pipe has anything to give
TransportReadCall ==
    /\ tr = "running"
    /\ rd = "idle"
    /\ once' = OnceDo.once
    /\ started' = OnceDo.started
    /\ rd' = "inRead"
    /\ UNCHANGED <<script, cpc, bodyCh, bodyClosed, enqueued, wpc, cur, nread,
                   creads, taken, failures, wg, mw, header, hcalls, fcalls,
                   late, rejected, wq, pdone, pwerr, readers, tr, bodyErr,
                   respCh, errCh, spc, result, delivered, written, builder,
                   race, conc, delay, again, eq>>

\* (variant: a read leaves the bytes it copied in the pending write)
ReadCopy_NoAdvance(data, n) ==
    [got |-> SubSeq(data, 1, n),
     rest |-> IF n = Len(data) THEN <<>> ELSE data]

\* pipe.read: copy(b, bw) takes the first n pending bytes, the rest stays
ReadCopy(data, n) ==
    [got |-> SubSeq(data, 1, n), rest |-> SubSeq(data, n + 1, Len(data))]

\* r.reader.Read(p) returns: bytes of the write in progress (as many as the
\* buffer takes), or the close error of the pipe.  A read that was blocked
\* when client.Do returned still completes, and is the last one.
TransportReadReturn ==
    /\ rd = "inRead"
    /\ IF pdone
       THEN /\ rd' = IF tr # "running" THEN "stopped"
                     ELSE IF ReadCloseError = EOF THEN "eof" ELSE "err"
            /\ bodyErr' = IF tr = "running" /\ ReadCloseError # EOF
                          THEN ReadCloseError ELSE bodyErr
            /\ UNCHANGED <<wq, delivered>>
       ELSE /\ wq # <<>>
            /\ Head(wq).data # <<>>
            /\ \E n \in 1..Len(Head(wq).data) :
                  /\ delivered' = delivered \o ReadCopy(Head(wq).data, n).got
                  /\ wq' = [wq EXCEPT ![1].data =
                               ReadCopy(Head(wq).data, n).rest]
            /\ rd' = IF tr # "running" THEN "stopped" ELSE "idle"
            /\ UNCHANGED bodyErr
    /\ UNCHANGED <<script, cpc, bodyCh, bodyClosed, enqueued, wpc, cur, nread,
                   creads, taken, failures, wg, mw, header, hcalls, fcalls,
                   late, rejected, pdone, pwerr, started, once, readers, tr,
                   respCh, errCh, spc, result, written, builder, race, conc,
                   delay, again, eq>>

\* client.Do returns an error: the error of a failed body read, or a failure
\* of the transport itself (cancellation, network), possible at any moment
DoError == IF rd = "err" THEN bodyErr ELSE ErrTransport

TransportFail ==
    /\ tr = "running"
    /\ respCh' = Deliver(NoResp, DoError).respCh
    /\ errCh' = Deliver(NoResp, DoError).errCh
    /\ tr' = "returned"
    /\ rd' = IF rd = "inRead" THEN rd ELSE "stopped"
    /\ UNCHANGED <<script, cpc, bodyCh, bodyClosed, enqueued, wpc, cur, nread,
                   creads, taken, failures, wg, mw, header, hcalls, fcalls,
                   late, rejected, wq, pdone, pwerr, started, once, readers,
                   bodyErr, spc, result, delivered, written, builder, race,
                   conc, delay, again, eq>>

\* client.Do returns a response, once the body has been sent to its end
TransportRespond ==
    /\ tr = "running"
    /\ rd = "eof"
    /\ respCh' = Deliver(Resp, NoErr).respCh
    /\ errCh' = Deliver(Resp, NoErr).errCh
    /\ tr' = "returned"
    /\ rd' = "stopped"
    /\ UNCHANGED <<script, cpc, bodyCh, bodyClosed, enqueued, wpc, cur, nread,
                   creads, taken, failures, wg, mw, header, hcalls, fcalls,
                   late, rejected, wq, pdone, pwerr, started, once, readers,
                   bodyErr, spc, result, delivered, written, builder, race,
                   conc, delay, again, eq>>

----------------------------------------------------------------------------
(* Multipart.Send *)

\* go func() { resp, err := m.client.Do(m.req) ... }()
SendLaunch ==
    /\ spc = "open"
    /\ CallersDone
    /\ tr' = "running"
    /\ spc' = "awaitStart"
    /\ UNCHANGED <<script, cpc, bodyCh, bodyClosed, enqueued, wpc, cur, nread,
                   creads, taken, failures, wg, mw, header, hcalls, fcalls,
                   late, rejected, wq, pdone, pwerr, started, once, readers,
                   rd, bodyErr, respCh, errCh, result, delivered, written,
                   builder, race, conc, delay, again, eq>>

\* (variant: Send does not wait for the first read)
GateOpen_Skipped == TRUE

\* <-m.startedCh
GateOpen == started > 0

\* <-m.startedCh; close(m.bodyCh)
SendCloseQueue ==
    /\ spc = "awaitStart"
    /\ GateOpen
    /\ bodyClosed' = TRUE
    /\ spc' = "wgWait"
    /\ UNCHANGED <<script, cpc, bodyCh, enqueued, wpc, cur, nread, creads,
                   taken, failures, wg, mw, header, hcalls, fcalls, late,
                   rejected, wq, pdone, pwerr, started, once, readers, tr, rd,
                   bodyErr, respCh, errCh, result, delivered, written,
                   builder, race, conc, delay, again, eq>>

\* (variant: Send does not wait for the worker)
WgWait_Skipped == TRUE

\* m.wg.Wait()
WgWait == wg = 0

\* m.wg.Wait(); m.mw.Close(): the last part is closed and, unless that part
\* had a write error, the terminating boundary is written to the pipe.  When
\* Close returns without writing, m.pw.Close() follows at once.
SendMwClose ==
    /\ spc = "wgWait"
    /\ WgWait
    /\ IF mw.lastpart /\ mw.we # NoErr
       THEN /\ pdone' = TRUE
            /\ pwerr' = StoreOnce(pwerr, EOF)
            /\ spc' = "select"
            /\ UNCHANGED <<mw, wq, written>>
       ELSE /\ mw' = [mw EXCEPT !.lastpart = FALSE]
            /\ wq' = Push(wq, "send", Trailer(mw))
            /\ written' = written \o Trailer(mw)
            /\ spc' = "mwClose"
            /\ UNCHANGED <<pdone, pwerr>>
    /\ UNCHANGED <<script, cpc, bodyCh, bodyClosed, enqueued, wpc, cur, nread,
                   creads, taken, failures, wg, header, hcalls, fcalls, late,
                   rejected, started, once, readers, tr, rd, bodyErr, respCh,
                   errCh, result, delivered, builder, race, conc, delay,
                   again, eq>>

\* the boundary write returns (its error is dropped); m.pw.Close()
SendPwClose ==
    /\ spc = "mwClose"
    /\ WriteReturns("send")
    /\ wq' = Without(wq, "send")
    /\ pdone' = TRUE
    /\ pwerr' = StoreOnce(pwerr, EOF)
    /\ spc' = "select"
    /\ UNCHANGED <<script, cpc, bodyCh, bodyClosed, enqueued, wpc, cur, nread,
                   creads, taken, failures, wg, mw, header, hcalls, fcalls,
                   late, rejected, started, once, readers, tr, rd, bodyErr,
                   respCh, errCh, result, delivered, written, builder, race,
                   conc, delay, again, eq>>

\* select { case resp := <-respCh: ... case err := <-errCh: ... }
SendSelect ==
    /\ spc = "select"
    /\ \/ /\ respCh # <<>>
          /\ result' = [resp |-> Head(respCh), err |-> NoErr]
          /\ respCh' = Tail(respCh)
          /\ UNCHANGED errCh
       \/ /\ errCh # <<>>
          /\ result' = [resp |-> NoResp, err |-> Head(errCh)]
          /\ errCh' = Tail(errCh)
          /\ UNCHANGED respCh
    /\ spc' = "returned"
    /\ UNCHANGED <<script, cpc, bodyCh, bodyClosed, enqueued, wpc, cur, nread,
                   creads, taken, failures, wg, mw, header, hcalls, fcalls,
                   late, rejected, wq, pdone, pwerr, started, once, readers,
                   tr, rd, bodyErr, delivered, written, builder, race, conc,
                   delay, again, eq>>

----------------------------------------------------------------------------

Next ==
    \/ \E c \in Callers : Enqueue(c)
    \/ WorkerRecv
    \/ WorkerStep
    \/ WorkerExit
    \/ SendLaunch
    \/ SendCloseQueue
    \/ SendMwClose
    \/ SendPwClose
    \/ SendSelect
    \/ TransportReadCall
    \/ TransportReadReturn
    \/ TransportFail
    \/ TransportRespond

Spec == Init /\ [][Next]_vars

----------------------------------------------------------------------------
(* The program with a transport that reads the body to its end and with a  *)
(* scheduler that lets every goroutine that can run take its step          *)

\* client.Do returns an error only when a read of the body has failed
NextLive ==
    \/ \E c \in Callers : Enqueue(c)
    \/ WorkerRecv
    \/ WorkerStep
    \/ WorkerExit
    \/ SendLaunch
    \/ SendCloseQueue
    \/ SendMwClose
    \/ SendPwClose
    \/ SendSelect
    \/ TransportReadCall
    \/ TransportReadReturn
    \/ (rd = "err" /\ TransportFail)
    \/ TransportRespond

\* fairness for each goroutine: the callers' chains, Multipart.worker,
\* Send, and the goroutine Send starts for client.Do
SpecLive ==
    /\ Init
    /\ [][NextLive]_vars
    /\ WF_vars(\E c \in Callers : Enqueue(c))
    /\ WF_vars(WorkerRecv \/ WorkerStep \/ WorkerExit)
    /\ WF_vars(SendLaunch \/ SendCloseQueue \/ SendMwClose \/ SendPwClose
                  \/ SendSelect)
    /\ WF_vars(TransportReadCall \/ TransportReadReturn
                  \/ (rd = "err" /\ TransportFail) \/ TransportRespond)

----------------------------------------------------------------------------
(* Header calls chained with Param and File calls by the goroutine that    *)
(* then calls Send, as in main().                                          *)

HeaderNames == {"X-Custom-Header", "x-custom-header", "Authorization"}
HeaderValues == {"custom-value", "123"}

\* textproto.CanonicalMIMEHeaderKey, which http.Header.Set applies to the
\* name: first letter and every letter after a hyphen in upper case
CanonicalKey(name) ==
    IF name = "x-custom-header" THEN "X-Custom-Header" ELSE name

\* (variant: a name that is already set keeps its value)
HeaderSet_KeepFirst(h, name, value) ==
    [k \in DOMAIN h \cup {CanonicalKey(name)} |->
        IF k \in DOMAIN h THEN h[k] ELSE value]

\* m.req.Header.Set(key, value): the value replaces what the name held
HeaderSet(h, name, value) ==
    [k \in DOMAIN h \cup {CanonicalKey(name)} |->
        IF k = CanonicalKey(name) THEN value ELSE h[k]]

\* chains of Header, Param and File calls issued by one goroutine
HeaderScripts ==
    {s \in [Callers -> SeqUpTo({"header", "param", "file"}, MaxItems)] :
        s["B"] = <<>>}

InitHeader ==
    /\ script \in HeaderScripts
    /\ Fresh
    /\ mw.boundary = "b1"

\* Header(key, value)
HeaderCall(c) ==
    /\ spc = "open"
    /\ cpc[c] < Len(script[c])
    /\ script[c][cpc[c] + 1] = "header"
    /\ \E name \in HeaderNames, value \in HeaderValues :
          /\ header' = HeaderSet(header, name, value)
          /\ hcalls' = Append(hcalls, [name |-> name, value |-> value])
    /\ cpc' = [cpc EXCEPT ![c] = @ + 1]
    /\ UNCHANGED <<script, bodyCh, bodyClosed, enqueued, wpc, cur, nread,
                   creads, taken, failures, wg, mw, fcalls, late, rejected,
                   wq, pdone, pwerr, started, once, readers, tr, rd, bodyErr,
                   respCh, errCh, spc, result, delivered, written, builder,
                   race, conc, delay, again, eq>>

NextHeader ==
    \/ \E c \in Callers : HeaderCall(c)
    \/ Next

SpecHeader == InitHeader /\ [][NextHeader]_vars

----------------------------------------------------------------------------
(* Param and File calls made on the builder after Send has been invoked,   *)
(* by another goroutine while Send runs or by anyone after it returned.    *)
(* A send on a closed channel panics; nothing in the package recovers, so  *)
(* the panic ends the program.                                             *)

\* (variant: the send does not look at the closed flag)
ChanSend_IgnoreClose(ch, closed, req) ==
    [panic |-> FALSE, ch |-> Append(ch, req)]

\* m.bodyCh <- request{...}
ChanSend(ch, closed, req) ==
    IF closed THEN [panic |-> TRUE, ch |-> ch]
    ELSE [panic |-> FALSE, ch |-> Append(ch, req)]

Crashed == rejected # <<>>

LateScripts ==
    {s \in [Callers -> SeqUpTo({"param", "file"}, MaxItems - 1)] :
        s["B"] = <<>>}

InitLate ==
    /\ script \in LateScripts
    /\ Fresh
    /\ mw.boundary = "b1"

\* Param(...) / File(...) once Send has been invoked: the send blocks while
\* the open channel is full, goes through while it is open and has room,
\* and panics once the channel is closed
LateEnqueue ==
    /\ ~Crashed
    /\ spc # "open"
    /\ late < MaxLate
    /\ bodyClosed \/ Len(bodyCh) < BodyChCap
    /\ \E kind \in {"param", "file"} :
          LET req == request("L", late + 1, kind)
              snd == ChanSend(bodyCh, bodyClosed, req)
          IN /\ bodyCh' = snd.ch
             /\ enqueued' = IF snd.panic THEN enqueued
                             ELSE Append(enqueued, req)
             /\ rejected' = IF snd.panic THEN Append(rejected, req.key)
                             ELSE rejected
    /\ late' = late + 1
    /\ UNCHANGED <<script, cpc, bodyClosed, wpc, cur, nread, creads, taken,
                   failures, wg, mw, header, hcalls, fcalls, wq, pdone, pwerr,
                   started, once, readers, tr, rd, bodyErr, respCh, errCh,
                   spc, result, delivered, written, builder, race, conc,
                   delay, again, eq>>

\* the program goes on for as long as no goroutine has panicked
Running == ~Crashed /\ Next

NextLate ==
    \/ LateEnqueue
    \/ Running

SpecLate == InitLate /\ [][NextLate]_vars

----------------------------------------------------------------------------
(* Param, Bool and Int with their values.  Text is a sequence of           *)
(* characters; the worker is left out, so the queue shows what each call   *)
(* put into it.                                                            *)

FieldNames == {"key1", "key2"}
IntInputs == {-120, -7, 0, 5, 10, 907}
TextInputs == {<<"t", "r", "u", "e">>, <<"5">>, <<"0", "5">>}

Digits == <<"0", "1", "2", "3", "4", "5", "6", "7", "8", "9">>

\* strconv.FormatBool
FormatBool(b) ==
    IF b THEN <<"t", "r", "u", "e">> ELSE <<"f", "a", "l", "s", "e">>

\* strconv's digit loop: the decimal digits of u, most significant first
RECURSIVE FormatBits(_)
FormatBits(u) ==
    IF u < 10 THEN <<Digits[u + 1]>>
    ELSE FormatBits(u \div 10) \o <<Digits[(u % 10) + 1]>>

\* (variant: the sign is left out)
Itoa_NoSign(n) == FormatBits(IF n < 0 THEN -n ELSE n)

\* strconv.Itoa
Itoa(n) == IF n < 0 THEN <<"-">> \o FormatBits(-n) ELSE FormatBits(n)

\* request{reqType: stringType, key: key, value: value}
StringRequest(key, value) ==
    [reqType |-> stringType, key |-> key, value |-> value]

InitFormat ==
    /\ Init
    /\ \A c \in Callers : script[c] = <<>>
    /\ mw.boundary = "b1"

\* Param(key, value): m.bodyCh <- request{...}
Param(key, value) ==
    /\ spc = "open"
    /\ Len(fcalls) < MaxCalls
    /\ Len(bodyCh) < BodyChCap
    /\ bodyCh' = Append(bodyCh, StringRequest(key, value))
    /\ enqueued' = Append(enqueued, StringRequest(key, value))

ParamCall ==
    /\ \E key \in FieldNames, value \in TextInputs :
          /\ Param(key, value)
          /\ fcalls' = Append(fcalls, [method |-> "Param", key |-> key,
                                       arg |-> value])
    /\ UNCHANGED <<script, cpc, bodyClosed, wpc, cur, nread, creads, taken,
                   failures, wg, mw, header, hcalls, late, rejected, wq,
                   pdone, pwerr, started, once, readers, tr, rd, bodyErr,
                   respCh, errCh, spc, result, delivered, written, builder,
                   race, conc, delay, again, eq>>

\* Bool(key, value): return m.Param(key, strconv.FormatBool(value))
BoolCall ==
    /\ \E key \in FieldNames, value \in BOOLEAN :
          /\ Param(key, FormatBool(value))
          /\ fcalls' = Append(fcalls, [method |-> "Bool", key |-> key,
                                       arg |-> value])
    /\ UNCHANGED <<script, cpc, bodyClosed, wpc, cur, nread, creads, taken,
                   failures, wg, mw, header, hcalls, late, rejected, wq,
                   pdone, pwerr, started, once, readers, tr, rd, bodyErr,
                   respCh, errCh, spc, result, delivered, written, builder,
                   race, conc, delay, again, eq>>

\* Int(key, value): return m.Param(key, strconv.Itoa(value))
IntCall ==
    /\ \E key \in FieldNames, value \in IntInputs :
          /\ Param(key, Itoa(value))
          /\ fcalls' = Append(fcalls, [method |-> "Int", key |-> key,
                                       arg |-> value])
    /\ UNCHANGED <<script, cpc, bodyClosed, wpc, cur, nread, creads, taken,
                   failures, wg, mw, header, hcalls, late, rejected, wq,
                   pdone, pwerr, started, once, readers, tr, rd, bodyErr,
                   respCh, errCh, spc, result, delivered, written, builder,
                   race, conc, delay, again, eq>>

NextFormat ==
    \/ ParamCall
    \/ BoolCall
    \/ IntCall

SpecFormat == InitFormat /\ [][NextFormat]_vars

----------------------------------------------------------------------------
(* The file-writing Builder of main.go: String / JSON hand Data values to  *)
(* the worker over an unbuffered channel, the worker encodes them into a   *)
(* pipe, and a goroutine copies the pipe into output.multipart.            *)

InitBuilder ==
    /\ script = [c \in Callers |-> <<>>]
    /\ FreshMultipart
    /\ mw.boundary = "b1"
    /\ \E chain \in SeqUpTo(BuilderKinds, MaxItems) :
          builder = NewBuilder(chain)
    /\ race = NotStarted
    /\ conc = ConcStart
    /\ delay = NewRequest(<<>>)
    /\ again = NotAgain
    /\ eq = NoPair

\* Data{FileType, Value} of the i-th call of the chain
DataValue(i, kind) ==
    [FileType |-> IF kind = "string" THEN "string" ELSE "json",
     key |-> <<"A", i>>,
     marshals |-> kind # "badjson"]

\* what CreatePart and the part writes take from a Data value
AsRequest(d) ==
    [reqType |-> IF d.FileType = "string" THEN stringType ELSE fileType,
     key |-> d.key]

BuilderWriteReturns ==
    builder.inWrite /\ (builder.pending = <<>> \/ builder.pdone)

BuilderWriteErr == IF builder.pending = <<>> THEN NoErr ELSE ErrClosedPipe

\* (variant: every item is counted as a string)
StatsInc_AsString(stats, ft) == [stats EXCEPT !.string = @ + 1]

\* b.stats[data.FileType]++
StatsInc(stats, ft) == [stats EXCEPT ![ft] = @ + 1]

\* String(line) / JSON(j): b.ch <- Data{...} meets the worker's receive,
\* and the worker starts WriteField / CreateFormFile with the part header
BuilderAppend ==
    /\ builder.bpc = "open"
    /\ builder.calls < Len(builder.chain)
    /\ builder.wpc = "recv"
    /\ ~builder.closed
    /\ LET d == DataValue(builder.calls + 1, builder.chain[builder.calls + 1])
           hdr == PartHeader(builder.mw, AsRequest(d))
       IN builder' = [builder EXCEPT
                         !.calls = @ + 1,
                         !.appended = Append(@, d),
                         !.data = d,
                         !.wpc = "head",
                         !.inWrite = TRUE,
                         !.pending = hdr,
                         !.written = @ \o hdr]
    /\ UNCHANGED <<script, cpc, bodyCh, bodyClosed, enqueued, wpc, cur, nread,
                   creads, taken, failures, wg, mw, header, hcalls, fcalls,
                   late, rejected, wq, pdone, pwerr, started, once, readers,
                   tr, rd, bodyErr, respCh, errCh, spc, result, delivered,
                   written, race, conc, delay, again, eq>>

\* a pipe write of the worker returns: after the header the value or the
\* marshalled JSON is written (unless Marshal fails); after that write the
\* item is counted; on any error the loop continues with the next item
BuilderWorkerStep ==
    /\ builder.wpc \in {"head", "body"}
    /\ BuilderWriteReturns
    /\ LET err == BuilderWriteErr
           d == builder.data
           idle == [builder EXCEPT !.wpc = "recv", !.inWrite = FALSE,
                                   !.pending = <<>>]
       IN builder' =
            IF builder.wpc = "head"
            THEN IF err # NoErr THEN idle
                 ELSE IF ~d.marshals
                 THEN [idle EXCEPT !.mw.lastpart = TRUE, !.mw.we = NoErr]
                 ELSE [builder EXCEPT
                          !.mw.lastpart = TRUE,
                          !.mw.we = NoErr,
                          !.wpc = "body",
                          !.pending = Data(AsRequest(d), 1),
                          !.written = @ \o Data(AsRequest(d), 1)]
            ELSE IF err # NoErr THEN [idle EXCEPT !.mw.we = err]
                 ELSE [idle EXCEPT !.stats = StatsInc(@, d.FileType)]
    /\ UNCHANGED <<script, cpc, bodyCh, bodyClosed, enqueued, wpc, cur, nread,
                   creads, taken, failures, wg, mw, header, hcalls, fcalls,
                   late, rejected, wq, pdone, pwerr, started, once, readers,
                   tr, rd, bodyErr, respCh, errCh, spc, result, delivered,
                   written, race, conc, delay, again, eq>>

\* for data := range b.ch ends on the closed channel
BuilderRangeEnds ==
    /\ builder.wpc = "recv"
    /\ builder.closed
    /\ builder' = [builder EXCEPT !.wpc = "defers"]
    /\ UNCHANGED <<script, cpc, bodyCh, bodyClosed, enqueued, wpc, cur, nread,
                   creads, taken, failures, wg, mw, header, hcalls, fcalls,
                   late, rejected, wq, pdone, pwerr, started, once, readers,
                   tr, rd, bodyErr, respCh, errCh, spc, result, delivered,
                   written, race, conc, delay, again, eq>>

\* the worker returns and runs its deferred calls, last registered first
BuilderDefer ==
    /\ builder.wpc = "defers"
    /\ ~builder.inWrite
    /\ LET top == builder.defers[Len(builder.defers)]
           rest == SubSeq(builder.defers, 1, Len(builder.defers) - 1)
           popped == [builder EXCEPT !.defers = rest]
       IN builder' =
            CASE top = "pw.Close" ->
                   [popped EXCEPT !.pdone = TRUE,
                                  !.pwerr = StoreOnce(@, EOF)]
              [] top = "mw.Close" ->
                   IF builder.mw.lastpart /\ builder.mw.we # NoErr
                   THEN popped
                   ELSE [popped EXCEPT
                            !.mw.lastpart = FALSE,
                            !.inWrite = TRUE,
                            !.pending = Trailer(builder.mw),
                            !.written = @ \o Trailer(builder.mw)]
              [] top = "wg.Done" ->
                   [popped EXCEPT !.wg = @ - 1, !.wpc = "done"]
    /\ UNCHANGED <<script, cpc, bodyCh, bodyClosed, enqueued, wpc, cur, nread,
                   creads, taken, failures, wg, mw, header, hcalls, fcalls,
                   late, rejected, wq, pdone, pwerr, started, once, readers,
                   tr, rd, bodyErr, respCh, errCh, spc, result, delivered,
                   written, race, conc, delay, again, eq>>

\* the boundary write of mw.Close returns (its error is dropped)
BuilderCloseReturns ==
    /\ builder.wpc = "defers"
    /\ BuilderWriteReturns
    /\ builder' = [builder EXCEPT !.inWrite = FALSE, !.pending = <<>>]
    /\ UNCHANGED <<script, cpc, bodyCh, bodyClosed, enqueued, wpc, cur, nread,
                   creads, taken, failures, wg, mw, header, hcalls, fcalls,
                   late, rejected, wq, pdone, pwerr, started, once, readers,
                   tr, rd, bodyErr, respCh, errCh, spc, result, delivered,
                   written, race, conc, delay, again, eq>>

\* io.Copy(file, b.pr) reads the pipe: bytes of the write in progress, or
\* the close error, with which io.Copy returns and wg.Done runs
BuilderCopyRead ==
    /\ builder.cp = "read"
    /\ IF builder.pdone
       THEN builder' = [builder EXCEPT !.cp = "done", !.wg = @ - 1]
       ELSE /\ builder.inWrite
            /\ builder.pending # <<>>
            /\ \E n \in 1..Len(builder.pending) :
                  builder' = [builder EXCEPT
                      !.cbuf = ReadCopy(builder.pending, n).got,
                      !.pending = ReadCopy(builder.pending, n).rest,
                      !.cp = "write"]
    /\ UNCHANGED <<script, cpc, bodyCh, bodyClosed, enqueued, wpc, cur, nread,
                   creads, taken, failures, wg, mw, header, hcalls, fcalls,
                   late, rejected, wq, pdone, pwerr, started, once, readers,
                   tr, rd, bodyErr, respCh, errCh, spc, result, delivered,
                   written, race, conc, delay, again, eq>>

\* io.Copy writes what it read to the file
BuilderCopyWrite ==
    /\ builder.cp = "write"
    /\ builder' = [builder EXCEPT !.output = @ \o builder.cbuf,
                                  !.cbuf = <<>>,
                                  !.cp = "read"]
    /\ UNCHANGED <<script, cpc, bodyCh, bodyClosed, enqueued, wpc, cur, nread,
                   creads, taken, failures, wg, mw, header, hcalls, fcalls,
                   late, rejected, wq, pdone, pwerr, started, once, readers,
                   tr, rd, bodyErr, respCh, errCh, spc, result, delivered,
                   written, race, conc, delay, again, eq>>

\* Build: close(b.ch)
BuildClose ==
    /\ builder.bpc = "open"
    /\ builder.calls = Len(builder.chain)
    /\ builder' = [builder EXCEPT !.closed = TRUE, !.bpc = "wait"]
    /\ UNCHANGED <<script, cpc, bodyCh, bodyClosed, enqueued, wpc, cur, nread,
                   creads, taken, failures, wg, mw, header, hcalls, fcalls,
                   late, rejected, wq, pdone, pwerr, started, once, readers,
                   tr, rd, bodyErr, respCh, errCh, spc, result, delivered,
                   written, race, conc, delay, again, eq>>

\* (variant: Build does not wait for the goroutines)
BuilderWgWait_Skipped == TRUE

\* b.wg.Wait()
BuilderWgWait == builder.wg = 0

\* Build: b.wg.Wait(); return b.stats
BuildReturn ==
    /\ builder.bpc = "wait"
    /\ BuilderWgWait
    /\ builder' = [builder EXCEPT !.bpc = "returned"]
    /\ UNCHANGED <<script, cpc, bodyCh, bodyClosed, enqueued, wpc, cur, nread,
                   creads, taken, failures, wg, mw, header, hcalls, fcalls,
                   late, rejected, wq, pdone, pwerr, started, once, readers,
                   tr, rd, bodyErr, respCh, errCh, spc, result, delivered,
                   written, race, conc, delay, again, eq>>

NextBuilder ==
    \/ BuilderAppend
    \/ BuilderWorkerStep
    \/ BuilderRangeEnds
    \/ BuilderDefer
    \/ BuilderCloseReturns
    \/ BuilderCopyRead
    \/ BuilderCopyWrite
    \/ BuildClose
    \/ BuildReturn

SpecBuilder == InitBuilder /\ [][NextBuilder]_vars

\* the Builder under a scheduler that lets every goroutine that can run
\* take its step: the caller of String / JSON / Build, the worker, and the
\* goroutine that copies the pipe into the file
SpecBuilderLive ==
    /\ InitBuilder
    /\ [][NextBuilder]_vars
    /\ WF_vars(BuilderAppend \/ BuildClose \/ BuildReturn)
    /\ WF_vars(BuilderAppend \/ BuilderWorkerStep \/ BuilderRangeEnds
                  \/ BuilderDefer \/ BuilderCloseReturns)
    /\ WF_vars(BuilderCopyRead \/ BuilderCopyWrite)

----------------------------------------------------------------------------
(* demonstrateRaceCondition: the goroutines of the advanced demo.  The     *)
(* sleeps of the writers order nothing; every interleaving is possible.    *)

InitRace ==
    /\ script = [c \in Callers |-> <<>>]
    /\ Fresh
    /\ mw.boundary = "b1"

\* what writer i hands to the pipe in its first and in its second write
RaceBytes(i, phase) ==
    IF phase = "header"
    THEN << Tok("delim", <<mw.boundary, IF race.lastpart THEN 1 ELSE 0>>, 0),
            Tok("disp", <<"W", i>>, IF i = 3 THEN 1 ELSE 0) >>
    ELSE << Tok("data", <<"W", i>>, 1) >>

\* (variant: main does not wait for errChan to be closed)
CollectDone_NoWait == TRUE

\* for err := range errChan ends when the channel is closed and drained
CollectDone == race.errClosed /\ race.errChan = <<>>

\* main: showCorrectMultipartStructure, then demonstrateRaceCondition
\* starts the three writers and the closer, collects the errors, and only
\* then calls client.Do, which reads the pipe through the TeeReader and
\* gives up when nothing comes for the length of its timeout
RaceMain ==
    /\ race' =
         CASE race.main = "do" /\ race.giveUp ->
                [race EXCEPT !.main = "done"]
           [] race.main = "intro" -> [race EXCEPT !.main = "spawn"]
           [] race.main = "spawn" /\ race.spawned < 3 ->
                [race EXCEPT
                    !.spawned = @ + 1,
                    !.wg = @ + 1,
                    !.w[race.spawned + 1].pc =
                        IF race.spawned = 0 THEN "call" ELSE "sleep"]
           [] race.main = "spawn" /\ race.spawned = 3 ->
                [race EXCEPT !.spawned = 4, !.closer = "ready",
                             !.main = "collect"]
           [] race.main = "collect" /\ race.errChan # <<>> ->
                [race EXCEPT !.errChan = Tail(@), !.errors = @ + 1]
           [] race.main = "collect" /\ race.errChan = <<>> /\ CollectDone ->
                [race EXCEPT !.main = "do"]
           [] race.main = "do" /\ ~race.giveUp /\ ~race.pdone
                /\ race.pending = <<>> ->
                [race EXCEPT !.giveUp = TRUE]
           [] race.main = "do" /\ ~race.pdone /\ race.pending # <<>> ->
                [race EXCEPT !.captured = @ \o race.pending,
                             !.pending = <<>>]
           [] race.main = "do" /\ race.pdone ->
                [race EXCEPT !.main = "done"]
           [] OTHER -> race
    /\ race' # race
    /\ UNCHANGED <<script, cpc, bodyCh, bodyClosed, enqueued, wpc, cur, nread,
                   creads, taken, failures, wg, mw, header, hcalls, fcalls,
                   late, rejected, wq, pdone, pwerr, started, once, readers,
                   tr, rd, bodyErr, respCh, errCh, spc, result, delivered,
                   written, builder, conc, delay, again, eq>>

\* writer i: time.Sleep, then WriteField or CreateFormFile + Write; each is
\* a pipe write for the part header and one for the content; a pipe write
\* takes the write mutex and returns when its bytes are read or the pipe is
\* closed; an error goes to errChan; wg.Done at the end
RaceWriter(i) ==
    /\ LET me == race.w[i]
           failed == race.pending # <<>>
       IN race' =
            CASE me.pc = "sleep" -> [race EXCEPT !.w[i].pc = "call"]
              [] me.pc = "call" -> [race EXCEPT !.w[i].pc = "lockwait"]
              [] me.pc = "lockwait" /\ race.lock = 0 ->
                   [race EXCEPT !.lock = i,
                                !.pending = RaceBytes(i, me.phase),
                                !.w[i].pc = "writing"]
              [] me.pc = "writing"
                   /\ (race.pending = <<>> \/ race.pdone) ->
                   IF failed
                   THEN [race EXCEPT !.lock = 0, !.pending = <<>>,
                                     !.errChan = Append(@, i),
                                     !.w[i].pc = "done", !.wg = @ - 1]
                   ELSE IF me.phase = "header"
                   THEN [race EXCEPT !.lock = 0, !.lastpart = TRUE,
                                     !.w[i] = [pc |-> "call",
                                               phase |-> "content"]]
                   ELSE [race EXCEPT !.lock = 0,
                                     !.w[i].pc = "done", !.wg = @ - 1]
              [] OTHER -> race
    /\ race' # race
    /\ UNCHANGED <<script, cpc, bodyCh, bodyClosed, enqueued, wpc, cur, nread,
                   creads, taken, failures, wg, mw, header, hcalls, fcalls,
                   late, rejected, wq, pdone, pwerr, started, once, readers,
                   tr, rd, bodyErr, respCh, errCh, spc, result, delivered,
                   written, builder, conc, delay, again, eq>>

\* the closer: wg.Wait(); close(errChan); mw.Close(); pw.Close()
RaceCloser ==
    /\ race' =
         CASE race.closer = "ready" -> [race EXCEPT !.closer = "waiting"]
           [] race.closer = "waiting" /\ race.wg = 0 ->
                [race EXCEPT !.errClosed = TRUE, !.closer = "mwClose"]
           [] race.closer = "mwClose" /\ race.lock = 0 ->
                [race EXCEPT !.lock = Closer,
                             !.pending = Trailer(mw),
                             !.closer = "mwWriting"]
           [] race.closer = "mwWriting"
                /\ (race.pending = <<>> \/ race.pdone) ->
                [race EXCEPT !.lock = 0, !.pending = <<>>,
                             !.pdone = TRUE, !.closer = "done"]
           [] OTHER -> race
    /\ race' # race
    /\ UNCHANGED <<script, cpc, bodyCh, bodyClosed, enqueued, wpc, cur, nread,
                   creads, taken, failures, wg, mw, header, hcalls, fcalls,
                   late, rejected, wq, pdone, pwerr, started, once, readers,
                   tr, rd, bodyErr, respCh, errCh, spc, result, delivered,
                   written, builder, conc, delay, again, eq>>

NextRace ==
    \/ RaceMain
    \/ \E i \in Writers : RaceWriter(i)
    \/ RaceCloser

SpecRace == InitRace /\ [][NextRace]_vars /\ WF_vars(NextRace)

----------------------------------------------------------------------------
(* demonstrateConcurrentError: the goroutines of the basic demo.  The      *)
(* sleeps order nothing.  mw.lastpart and the closed flag of a part are    *)
(* read and written by the writers without synchronisation, so a read may  *)
(* return a value that another goroutine has replaced meanwhile.           *)

InitConc ==
    /\ script = [c \in Callers |-> <<>>]
    /\ Fresh
    /\ mw.boundary = "b1"

ConcBytes(i) ==
    IF conc.w[i].phase = "header"
    THEN << Tok("delim", <<mw.boundary, conc.w[i].lead>>, 0),
            Tok("disp", <<"W", i>>, IF i = 3 THEN 1 ELSE 0) >>
    ELSE << Tok("data", <<"W", i>>, 1) >>

ConcPipeClosed == conc.wclosed \/ conc.rclosed

\* (variant: a pipe without a write mutex)
PipeLockFree_Always == TRUE

\* pipe.write: p.wrMu.Lock()
PipeLockFree == conc.lock = 0

\* the call of writer i ends with an error, or with success
ConcEnd(i, res) ==
    [conc EXCEPT !.w[i].pc = "done", !.w[i].res = res, !.wg = @ - 1]

\* writer i: time.Sleep; WriteField or CreateFormFile + Write.  CreatePart
\* closes the part it finds in mw.lastpart, writes the header to the pipe
\* and makes its own part the last one; the part's Write fails if the part
\* has been closed, else writes the content to the pipe
ConcWriter(i) ==
    /\ LET me == conc.w[i]
       IN \/ /\ me.pc = "sleep"
             /\ conc' = [conc EXCEPT !.w[i].pc = "create"]
          \/ /\ me.pc = "create"
             /\ \E seen \in conc.ever :     \* unsynchronised read
                  conc' = [conc EXCEPT
                      !.closed = IF seen # 0 THEN @ \cup {seen} ELSE @,
                      !.w[i].lead = IF seen # 0 THEN 1 ELSE 0,
                      !.w[i].pc = "lockwait"]
          \/ /\ me.pc = "lockwait"
             /\ IF ConcPipeClosed
                THEN conc' = ConcEnd(i, "err")
                ELSE /\ PipeLockFree
                     /\ conc' = [conc EXCEPT !.lock = i,
                                             !.pending = ConcBytes(i),
                                             !.w[i].pc = "writing"]
          \/ /\ me.pc = "writing"
             /\ conc.pending = <<>> \/ ConcPipeClosed
             /\ conc' =
                  IF conc.pending # <<>>
                  THEN [ConcEnd(i, "err") EXCEPT !.lock = 0, !.pending = <<>>]
                  ELSE IF me.phase = "header"
                  THEN [conc EXCEPT !.lock = 0, !.lastpart = i,
                                    !.ever = @ \cup {i},
                                    !.w[i].pc = "content"]
                  ELSE [ConcEnd(i, "ok") EXCEPT !.lock = 0]
          \/ /\ me.pc = "content"
             /\ \E flag \in {i \in conc.closed, FALSE} : \* unsynchronised read
                  conc' = IF flag
                          THEN ConcEnd(i, "err")
                          ELSE [conc EXCEPT !.w[i].phase = "content",
                                            !.w[i].pc = "lockwait"]
    /\ UNCHANGED <<script, cpc, bodyCh, bodyClosed, enqueued, wpc, cur, nread,
                   creads, taken, failures, wg, mw, header, hcalls, fcalls,
                   late, rejected, wq, pdone, pwerr, started, once, readers,
                   tr, rd, bodyErr, respCh, errCh, spc, result, delivered,
                   written, builder, race, delay, again, eq>>

\* the closer: wg.Wait(); mw.Close() closes the last part and writes the
\* terminating boundary; pw.Close()
ConcCloser ==
    /\ \/ /\ conc.closer = "waiting"
          /\ conc.wg = 0
          /\ conc' = [conc EXCEPT
                 !.closed = IF conc.lastpart # 0
                            THEN @ \cup {conc.lastpart} ELSE @,
                 !.closer = "mwClose"]
       \/ /\ conc.closer = "mwClose"
          /\ IF ConcPipeClosed
             THEN conc' = [conc EXCEPT !.wclosed = TRUE, !.closer = "done"]
             ELSE /\ PipeLockFree
                  /\ conc' = [conc EXCEPT !.lock = Closer,
                                          !.pending = Trailer(mw),
                                          !.closer = "mwWriting"]
       \/ /\ conc.closer = "mwWriting"
          /\ conc.pending = <<>> \/ ConcPipeClosed
          /\ conc' = [conc EXCEPT !.lock = 0, !.pending = <<>>,
                                  !.wclosed = TRUE, !.closer = "done"]
    /\ UNCHANGED <<script, cpc, bodyCh, bodyClosed, enqueued, wpc, cur, nread,
                   creads, taken, failures, wg, mw, header, hcalls, fcalls,
                   late, rejected, wq, pdone, pwerr, started, once, readers,
                   tr, rd, bodyErr, respCh, errCh, spc, result, delivered,
                   written, builder, race, delay, again, eq>>

\* client.Do reads the request body: bytes of the write in progress, or
\* EOF once the pipe is closed
ConcRead ==
    /\ conc.reader = "reading"
    /\ IF conc.wclosed
       THEN conc' = [conc EXCEPT !.reader = "eof"]
       ELSE /\ conc.pending # <<>>
            /\ \E n \in 1..Len(conc.pending) :
                  conc' = [conc EXCEPT
                      !.body = @ \o ReadCopy(conc.pending, n).got,
                      !.pending = ReadCopy(conc.pending, n).rest]
    /\ UNCHANGED <<script, cpc, bodyCh, bodyClosed, enqueued, wpc, cur, nread,
                   creads, taken, failures, wg, mw, header, hcalls, fcalls,
                   late, rejected, wq, pdone, pwerr, started, once, readers,
                   tr, rd, bodyErr, respCh, errCh, spc, result, delivered,
                   written, builder, race, delay, again, eq>>

\* client.Do fails (no connection, timeout) and closes the request body
ConcFail ==
    /\ conc.reader = "reading"
    /\ conc' = [conc EXCEPT !.reader = "failed", !.rclosed = TRUE]
    /\ UNCHANGED <<script, cpc, bodyCh, bodyClosed, enqueued, wpc, cur, nread,
                   creads, taken, failures, wg, mw, header, hcalls, fcalls,
                   late, rejected, wq, pdone, pwerr, started, once, readers,
                   tr, rd, bodyErr, respCh, errCh, spc, result, delivered,
                   written, builder, race, delay, again, eq>>

NextConc ==
    \/ \E i \in Writers : ConcWriter(i)
    \/ ConcCloser
    \/ ConcRead
    \/ ConcFail

SpecConc == InitConc /\ [][NextConc]_vars

----------------------------------------------------------------------------
(* The Builder of multipart.go (NewBuilder, worker, String, JSON, Close,   *)
(* Send) with the goroutine of client.Do                                   *)

InitDelay ==
    /\ script = [c \in Callers |-> <<>>]
    /\ FreshMultipart
    /\ mw.boundary = "b1"
    /\ builder = NewBuilder(<<>>)
    /\ race = NotStarted
    /\ conc = ConcStart
    /\ \E chain \in SeqUpTo(BuilderKinds, MaxItems) :
          delay = NewRequest(chain)
    /\ again = NotAgain
    /\ eq = NoPair

\* a pipe write returns: everything was read, or the pipe is closed on
\* either side
DelayWriteReturns ==
    /\ delay.inWrite
    /\ delay.pending = <<>> \/ delay.wclosed \/ delay.rclosed

\* the worker is back at the range loop, with or without an error printed
\* for the item
DelayContinue(err) ==
    [delay EXCEPT !.wpc = "recv", !.inWrite = FALSE, !.pending = <<>>,
                  !.data = NoData,
                  !.failed = IF err THEN Append(@, delay.data.key) ELSE @]

\* String(line) / JSON(j): r.ch <- Data{...} meets the worker's receive;
\* WriteField / CreateFormFile start with CreatePart, which returns the
\* write error of the previous part if it had one and else writes the part
\* header
DelayAppend ==
    /\ delay.cpc = "open"
    /\ delay.calls < Len(delay.chain)
    /\ delay.chain[delay.calls + 1] \in BuilderKinds
    /\ delay.wpc = "recv"
    /\ LET d == DataValue(delay.calls + 1, delay.chain[delay.calls + 1])
           got == [delay EXCEPT !.calls = @ + 1, !.appended = Append(@, d)]
       IN delay' =
            IF delay.mw.lastpart /\ delay.mw.we # NoErr
            THEN [got EXCEPT !.failed = Append(@, d.key)]
            ELSE [got EXCEPT !.data = d, !.wpc = "head", !.inWrite = TRUE,
                             !.pending = PartHeader(delay.mw, AsRequest(d))]
    /\ UNCHANGED <<script, cpc, bodyCh, bodyClosed, enqueued, wpc, cur, nread,
                   creads, taken, failures, wg, mw, header, hcalls, fcalls,
                   late, rejected, wq, pdone, pwerr, started, once, readers,
                   tr, rd, bodyErr, respCh, errCh, spc, result, delivered,
                   written, builder, race, conc, again, eq>>

\* a pipe write of the worker returns: after the header the value or the
\* marshalled JSON is written (unless Marshal fails); on any error the
\* worker prints it and continues with the next item
DelayWorkerStep ==
    /\ delay.wpc \in {"head", "body"}
    /\ DelayWriteReturns
    /\ LET err == IF delay.pending = <<>> THEN NoErr ELSE ErrClosedPipe
           d == delay.data
       IN delay' =
            IF delay.wpc = "head"
            THEN IF err # NoErr THEN DelayContinue(TRUE)
                 ELSE IF ~d.marshals
                 THEN [DelayContinue(TRUE) EXCEPT !.mw.lastpart = TRUE,
                                                  !.mw.we = NoErr]
                 ELSE [delay EXCEPT !.mw.lastpart = TRUE, !.mw.we = NoErr,
                                    !.wpc = "body",
                                    !.pending = Data(AsRequest(d), 1)]
            ELSE IF err # NoErr
                 THEN [DelayContinue(TRUE) EXCEPT !.mw.we = err]
                 ELSE DelayContinue(FALSE)
    /\ UNCHANGED <<script, cpc, bodyCh, bodyClosed, enqueued, wpc, cur, nread,
                   creads, taken, failures, wg, mw, header, hcalls, fcalls,
                   late, rejected, wq, pdone, pwerr, started, once, readers,
                   tr, rd, bodyErr, respCh, errCh, spc, result, delivered,
                   written, builder, race, conc, again, eq>>

\* for data := range r.ch ends on the closed channel; defer r.wg.Done()
DelayWorkerExit ==
    /\ delay.wpc = "recv"
    /\ delay.chClosed
    /\ delay' = [delay EXCEPT !.wpc = "done", !.wg = @ - 1]
    /\ UNCHANGED <<script, cpc, bodyCh, bodyClosed, enqueued, wpc, cur, nread,
                   creads, taken, failures, wg, mw, header, hcalls, fcalls,
                   late, rejected, wq, pdone, pwerr, started, once, readers,
                   tr, rd, bodyErr, respCh, errCh, spc, result, delivered,
                   written, builder, race, conc, again, eq>>

\* Send: Close: close(r.ch)
DelaySendClose ==
    /\ delay.cpc = "open"
    /\ delay.calls = Len(delay.chain)
    /\ delay' = [delay EXCEPT !.chClosed = TRUE, !.cpc = "wait"]
    /\ UNCHANGED <<script, cpc, bodyCh, bodyClosed, enqueued, wpc, cur, nread,
                   creads, taken, failures, wg, mw, header, hcalls, fcalls,
                   late, rejected, wq, pdone, pwerr, started, once, readers,
                   tr, rd, bodyErr, respCh, errCh, spc, result, delivered,
                   written, builder, race, conc, again, eq>>

\* Close: r.wg.Wait(); r.mw.Close() writes the terminating boundary unless
\* the last part had a write error, and then r.pw.Close() follows at once
DelaySendMwClose ==
    /\ delay.cpc = "wait"
    /\ delay.wg = 0
    /\ delay' =
          IF delay.mw.lastpart /\ delay.mw.we # NoErr
          THEN [delay EXCEPT !.wclosed = TRUE, !.cpc = "select"]
          ELSE [delay EXCEPT !.inWrite = TRUE, !.pending = Trailer(delay.mw),
                             !.cpc = "mwClose"]
    /\ UNCHANGED <<script, cpc, bodyCh, bodyClosed, enqueued, wpc, cur, nread,
                   creads, taken, failures, wg, mw, header, hcalls, fcalls,
                   late, rejected, wq, pdone, pwerr, started, once, readers,
                   tr, rd, bodyErr, respCh, errCh, spc, result, delivered,
                   written, builder, race, conc, again, eq>>

\* the boundary write returns (its error is dropped); r.pw.Close()
DelaySendPwClose ==
    /\ delay.cpc = "mwClose"
    /\ DelayWriteReturns
    /\ delay' = [delay EXCEPT !.inWrite = FALSE, !.pending = <<>>,
                              !.wclosed = TRUE, !.cpc = "select"]
    /\ UNCHANGED <<script, cpc, bodyCh, bodyClosed, enqueued, wpc, cur, nread,
                   creads, taken, failures, wg, mw, header, hcalls, fcalls,
                   late, rejected, wq, pdone, pwerr, started, once, readers,
                   tr, rd, bodyErr, respCh, errCh, spc, result, delivered,
                   written, builder, race, conc, again, eq>>

\* select { case resp := <-r.respCh: ... case err := <-r.errCh: ... }
DelaySendSelect ==
    /\ delay.cpc = "select"
    /\ \/ /\ delay.respCh # <<>>
          /\ delay' = [delay EXCEPT
                 !.result = [resp |-> Head(delay.respCh), err |-> NoErr],
                 !.respCh = Tail(@), !.cpc = "returned"]
       \/ /\ delay.errCh # <<>>
          /\ delay' = [delay EXCEPT
                 !.result = [resp |-> NoResp, err |-> Head(delay.errCh)],
                 !.errCh = Tail(@), !.cpc = "returned"]
    /\ UNCHANGED <<script, cpc, bodyCh, bodyClosed, enqueued, wpc, cur, nread,
                   creads, taken, failures, wg, mw, header, hcalls, fcalls,
                   late, rejected, wq, pdone, pwerr, started, once, readers,
                   tr, rd, bodyErr, respCh, errCh, spc, result, delivered,
                   written, builder, race, conc, again, eq>>

\* client.Do in the goroutine the constructor started: it reads the header
\* map of the request and puts the headers on the wire
DelayTransportHeaders ==
    /\ delay.tpc \in {"start", "hdr"}
    /\ delay' = IF delay.tpc = "start"
                THEN [delay EXCEPT !.tpc = "hdr"]
                ELSE [delay EXCEPT !.tpc = "body", !.sent = delay.header]
    /\ UNCHANGED <<script, cpc, bodyCh, bodyClosed, enqueued, wpc, cur, nread,
                   creads, taken, failures, wg, mw, header, hcalls, fcalls,
                   late, rejected, wq, pdone, pwerr, started, once, readers,
                   tr, rd, bodyErr, respCh, errCh, spc, result, delivered,
                   written, builder, race, conc, again, eq>>

\* client.Do reads the body: bytes of the write in progress, or EOF once
\* the write side is closed
DelayTransportRead ==
    /\ delay.tpc = "body"
    /\ IF delay.wclosed
       THEN delay' = [delay EXCEPT !.tpc = "eof"]
       ELSE /\ delay.inWrite
            /\ delay.pending # <<>>
            /\ \E n \in 1..Len(delay.pending) :
                  delay' = [delay EXCEPT
                      !.delivered = @ \o ReadCopy(delay.pending, n).got,
                      !.pending = ReadCopy(delay.pending, n).rest]
    /\ UNCHANGED <<script, cpc, bodyCh, bodyClosed, enqueued, wpc, cur, nread,
                   creads, taken, failures, wg, mw, header, hcalls, fcalls,
                   late, rejected, wq, pdone, pwerr, started, once, readers,
                   tr, rd, bodyErr, respCh, errCh, spc, result, delivered,
                   written, builder, race, conc, again, eq>>

\* (variant: the body has no Close method, as behind a wrapper)
BodyClose_Nop(d) == d

\* the transport closes the request body: PipeReader.Close
BodyClose(d) == [d EXCEPT !.rclosed = TRUE]

\* client.Do returns: the response after the body was sent to its end, or
\* an error (no connection, cancellation, network error) at any moment;
\* the transport closes the body
DelayTransportReturns ==
    /\ delay.tpc \in {"start", "hdr", "body", "eof"}
    /\ \E ok \in {FALSE, delay.tpc = "eof"} :
          delay' = IF ok
                   THEN [BodyClose(delay) EXCEPT !.respCh = Append(@, Resp),
                                                 !.tpc = "returned"]
                   ELSE [BodyClose(delay) EXCEPT
                            !.errCh = Append(@, ErrTransport),
                            !.tpc = "returned"]
    /\ UNCHANGED <<script, cpc, bodyCh, bodyClosed, enqueued, wpc, cur, nread,
                   creads, taken, failures, wg, mw, header, hcalls, fcalls,
                   late, rejected, wq, pdone, pwerr, started, once, readers,
                   tr, rd, bodyErr, respCh, errCh, spc, result, delivered,
                   written, builder, race, conc, again, eq>>

NextDelay ==
    \/ DelayAppend
    \/ DelayWorkerStep
    \/ DelayWorkerExit
    \/ DelaySendClose
    \/ DelaySendMwClose
    \/ DelaySendPwClose
    \/ DelaySendSelect
    \/ DelayTransportHeaders
    \/ DelayTransportRead
    \/ DelayTransportReturns

\* fairness for each goroutine: the caller of String / JSON / Send, the
\* worker, and the goroutine of client.Do
SpecDelay ==
    /\ InitDelay
    /\ [][NextDelay]_vars
    /\ WF_vars(DelayAppend \/ DelaySendClose \/ DelaySendMwClose
                  \/ DelaySendPwClose \/ DelaySendSelect)
    /\ WF_vars(DelayAppend \/ DelayWorkerStep \/ DelayWorkerExit)
    /\ WF_vars(DelayTransportHeaders \/ DelayTransportRead
                  \/ DelayTransportReturns)

----------------------------------------------------------------------------
(* The Request of the delay-based variant: the same with Header calls in   *)
(* the chain.  http.Header is a map; the caller writes it in Header while  *)
(* client.Do may be reading it.                                            *)

InitRequest ==
    /\ script = [c \in Callers |-> <<>>]
    /\ FreshMultipart
    /\ mw.boundary = "b1"
    /\ builder = NewBuilder(<<>>)
    /\ race = NotStarted
    /\ conc = ConcStart
    /\ \E chain \in SeqUpTo(BuilderKinds \cup {"header"}, MaxItems) :
          delay = NewRequest(chain)
    /\ again = NotAgain
    /\ eq = NoPair

\* Header(key, value): r.request.Header.Set(key, value).  A map write
\* while client.Do reads the map either goes through or makes the runtime
\* stop the program ("concurrent map read and map write")
RequestHeader ==
    /\ ~delay.crashed
    /\ delay.cpc = "open"
    /\ delay.calls < Len(delay.chain)
    /\ delay.chain[delay.calls + 1] = "header"
    /\ \E name \in HeaderNames, value \in HeaderValues :
       \E fatal \in {FALSE, delay.tpc = "hdr"} :
          delay' = IF fatal
                   THEN [delay EXCEPT !.crashed = TRUE]
                   ELSE [delay EXCEPT
                           !.header = HeaderSet(@, name, value),
                           !.hcalls = Append(@, [name |-> name,
                                                 value |-> value]),
                           !.calls = @ + 1]
    /\ UNCHANGED <<script, cpc, bodyCh, bodyClosed, enqueued, wpc, cur, nread,
                   creads, taken, failures, wg, mw, header, hcalls, fcalls,
                   late, rejected, wq, pdone, pwerr, started, once, readers,
                   tr, rd, bodyErr, respCh, errCh, spc, result, delivered,
                   written, builder, race, conc, again, eq>>

\* Header calls, and the rest of the program for as long as it has not
\* been stopped
NextRequest ==
    \/ RequestHeader
    \/ (~delay.crashed /\ NextDelay)

SpecRequest == InitRequest /\ [][NextRequest]_vars

----------------------------------------------------------------------------
(* Send called a second time on the same Multipart, after the first call   *)
(* has returned                                                            *)

\* close(ch) of a channel: closing a closed channel panics
ChanClose(closed) == IF closed THEN "panic" ELSE "closed"

\* Send again: new respCh / errCh, and go func() { m.client.Do(m.req) }()
SendAgainLaunch ==
    /\ spc = "returned"
    /\ again.spc = "idle"
    /\ again' = [again EXCEPT !.spc = "awaitStart", !.tr = "running"]
    /\ UNCHANGED <<script, cpc, bodyCh, bodyClosed, enqueued, wpc, cur, nread,
                   creads, taken, failures, wg, mw, header, hcalls, fcalls,
                   late, rejected, wq, pdone, pwerr, started, once, readers,
                   tr, rd, bodyErr, respCh, errCh, spc, result, delivered,
                   written, builder, race, conc, delay, eq>>

\* <-m.startedCh returns at once on the closed channel; close(m.bodyCh)
SendAgainCloseQueue ==
    /\ again.spc = "awaitStart"
    /\ GateOpen
    /\ again' = [again EXCEPT
          !.spc = IF ChanClose(bodyClosed) = "panic" THEN "panicked"
                  ELSE "wgWait"]
    /\ UNCHANGED <<script, cpc, bodyCh, bodyClosed, enqueued, wpc, cur, nread,
                   creads, taken, failures, wg, mw, header, hcalls, fcalls,
                   late, rejected, wq, pdone, pwerr, started, once, readers,
                   tr, rd, bodyErr, respCh, errCh, spc, result, delivered,
                   written, builder, race, conc, delay, eq>>

\* the second client.Do reads the body, which is the closed pipe, and
\* returns a response or an error into the channels of the second call
TransportAgain ==
    /\ again.spc # "panicked"
    /\ again.tr = "running"
    /\ \/ /\ again.rd = "idle"
          /\ again' = [again EXCEPT
                !.rd = IF ReadCloseError = EOF THEN "eof" ELSE "err"]
       \/ /\ again.rd = "eof"
          /\ again' = [again EXCEPT !.respCh = Append(@, Resp),
                                    !.tr = "returned"]
       \/ /\ again' = [again EXCEPT
                !.errCh = Append(@, IF again.rd = "err" THEN ReadCloseError
                                    ELSE ErrTransport),
                !.tr = "returned"]
    /\ UNCHANGED <<script, cpc, bodyCh, bodyClosed, enqueued, wpc, cur, nread,
                   creads, taken, failures, wg, mw, header, hcalls, fcalls,
                   late, rejected, wq, pdone, pwerr, started, once, readers,
                   tr, rd, bodyErr, respCh, errCh, spc, result, delivered,
                   written, builder, race, conc, delay, eq>>

\* the second call, and the first call and its goroutines for as long as
\* the program has not been stopped
NextAgain ==
    \/ SendAgainLaunch
    \/ SendAgainCloseQueue
    \/ TransportAgain
    \/ (again.spc # "panicked" /\ Next)

SpecAgain == Init /\ [][NextAgain]_vars

----------------------------------------------------------------------------
(* The two Multipart implementations run on the same chain of calls under  *)
(* the same schedule: every step is the same step of both.                 *)

InitEquiv ==
    /\ script = [c \in Callers |-> <<>>]
    /\ FreshMultipart
    /\ mw.boundary = "b1"
    /\ builder = NewBuilder(<<>>)
    /\ race = NotStarted
    /\ conc = ConcStart
    /\ delay = NewRequest(<<>>)
    /\ again = NotAgain
    /\ \E chain \in SeqUpTo(Kinds \cup {"header"}, MaxItems) :
          eq = [s |-> MNew("signalReader", chain), r |-> MNew("Reader", chain)]

\* PipeWriter.Write returns: everything was read, or the pipe is closed
MWriteReturns(st, who) ==
    \/ st.wq # <<>> /\ Head(st.wq).who = who /\ Head(st.wq).data = <<>>
    \/ st.pdone /\ \E i \in 1..Len(st.wq) : st.wq[i].who = who

\* fmt.Errorf("failed to ...: %w", err) of the Reader implementation
Wrap(msg, err) == Err(msg, err.key)

\* the error given to CloseWithError: the signalReader implementation
\* passes err on, the Reader implementation wraps it by the call that failed
MEncodeErr(st, err) ==
    LET raw == IF err # NoErr THEN err ELSE ErrContent(st.cur.key)
    IN IF st.impl = "signalReader" THEN raw
       ELSE IF st.cur.reqType = stringType
       THEN Wrap("failed to write form field", raw)
       ELSE IF st.wpc = "head" /\ err # NoErr
       THEN Wrap("failed to create form file", raw)
       ELSE Wrap("failed to copy file content", raw)

\* (variant: the Reader implementation logs the error and goes on)
MAbortOn_ReaderContinues(st, err) == st.impl # "Reader" /\ err # NoErr

\* both: if err != nil { pw.CloseWithError(...); return }
MAbortOn(st, err) == err # NoErr

\* worker: a pipe write returns; WriteField / CreateFormFile / io.Copy go
\* on with the next write or finish the item, and the loop either takes the
\* next request or aborts the pipe and returns
MWorkerStep(st) ==
    LET err == IF Head(st.wq).data = <<>> THEN NoErr ELSE ErrClosedPipe
        q == Without(st.wq, "worker")
        next == IF err # NoErr THEN "error"
                ELSE IF st.cur.reqType = stringType
                THEN (IF st.wpc = "head" THEN "chunk" ELSE "eof")
                ELSE CopyStep(st.cur, st.nread)
        e == MEncodeErr(st, err)
        w == IF st.wpc = "head"
             THEN (IF err = NoErr
                   THEN [st.mw EXCEPT !.lastpart = TRUE, !.we = NoErr]
                   ELSE st.mw)
             ELSE [st.mw EXCEPT !.we = err]
    IN IF next = "chunk"
       THEN [st EXCEPT !.mw = w, !.nread = @ + 1, !.wpc = "body",
                !.wq = Push(q, "worker", Data(st.cur, st.nread + 1))]
       ELSE IF next = "error" /\ MAbortOn(st, e)
       THEN [st EXCEPT !.mw = w, !.wq = q, !.pdone = TRUE,
                !.pwerr = StoreOnce(@, e), !.wpc = "done", !.wg = @ - 1,
                !.aborted = Append(@, st.cur.key)]
       ELSE [st EXCEPT !.mw = w, !.wq = q, !.wpc = "recv"]

\* the inputs of a step: the name given to Header, the branch the select
\* takes, the number of bytes a read returns
StepInputs(step) ==
    CASE step = "call" -> HeaderNames
      [] step = "select" -> {"resp", "err"}
      [] step = "readReturn" -> {1, 2}
      [] OTHER -> {0}

\* whether the Multipart st can take the step
MEnabled(st, step, x) ==
    CASE step = "call" ->        \* Param / File / Header before Send
            /\ st.spc = "open"
            /\ st.calls < Len(st.chain)
            /\ \/ st.chain[st.calls + 1] = "header"
               \/ Len(st.bodyCh) < BodyChCap
      [] step = "recv" ->        \* the range loop takes a request
            st.wpc = "recv" /\ st.bodyCh # <<>>
      [] step = "exit" ->        \* the range loop ends
            st.wpc = "recv" /\ st.bodyCh = <<>> /\ st.bodyClosed
      [] step = "write" ->       \* a pipe write of the worker returns
            st.wpc \in {"head", "body"} /\ MWriteReturns(st, "worker")
      [] step = "launch" ->      \* Send: go func() { client.Do(...) }()
            st.spc = "open" /\ st.calls = Len(st.chain)
      [] step = "closeQueue" ->  \* <-startedCh / <-startRequest
            st.spc = "awaitStart" /\ st.started > 0
      [] step = "mwClose" ->     \* wg.Wait(); mw.Close()
            st.spc = "wgWait" /\ st.wg = 0
      [] step = "pwClose" ->     \* pw.Close()
            st.spc = "mwClose" /\ MWriteReturns(st, "send")
      [] step = "select" ->
            /\ st.spc = "select"
            /\ IF x = "resp" THEN st.respCh # <<>> ELSE st.errCh # <<>>
      [] step = "readCall" ->    \* the transport calls Read
            st.tr = "running" /\ st.rd = "idle"
      [] step = "readReturn" ->  \* the pipe read returns
            /\ st.rd = "inRead"
            /\ IF st.pdone THEN x = 1
               ELSE st.wq # <<>> /\ x <= Len(Head(st.wq).data)
      [] step = "fail" ->        \* client.Do returns an error
            st.tr = "running"
      [] step = "respond" ->     \* client.Do returns a response
            st.tr = "running" /\ st.rd = "eof"

\* the Multipart st after the step
MApply(st, step, x) ==
    CASE step = "call" ->
            \* Header: Header.Set; Param / File: send on the buffered channel
            IF st.chain[st.calls + 1] = "header"
            THEN [st EXCEPT !.header = HeaderSet(@, x, "custom-value"),
                            !.calls = @ + 1]
            ELSE [st EXCEPT !.calls = @ + 1,
                    !.bodyCh = Append(@, request("A", st.calls + 1,
                                                 st.chain[st.calls + 1]))]
      [] step = "recv" ->
            \* CreatePart writes the part header
            [st EXCEPT !.cur = Head(st.bodyCh), !.bodyCh = Tail(@),
                 !.nread = 0, !.wpc = "head",
                 !.wq = Push(@, "worker", PartHeader(st.mw, Head(st.bodyCh)))]
      [] step = "exit" ->
            \* defer wg.Done()
            [st EXCEPT !.wpc = "done", !.wg = @ - 1]
      [] step = "write" -> MWorkerStep(st)
      [] step = "launch" ->
            [st EXCEPT !.tr = "running", !.spc = "awaitStart"]
      [] step = "closeQueue" ->
            \* close(bodyCh) / close(body)
            [st EXCEPT !.bodyClosed = TRUE, !.spc = "wgWait"]
      [] step = "mwClose" ->
            \* no boundary is written when the last part had a write error
            IF st.mw.lastpart /\ st.mw.we # NoErr
            THEN [st EXCEPT !.pdone = TRUE, !.pwerr = StoreOnce(@, EOF),
                            !.spc = "select"]
            ELSE [st EXCEPT !.mw.lastpart = FALSE, !.spc = "mwClose",
                            !.wq = Push(@, "send", Trailer(st.mw))]
      [] step = "pwClose" ->
            [st EXCEPT !.wq = Without(@, "send"), !.pdone = TRUE,
                       !.pwerr = StoreOnce(@, EOF), !.spc = "select"]
      [] step = "select" ->
            IF x = "resp"
            THEN [st EXCEPT
                    !.result = [resp |-> Head(st.respCh), err |-> NoErr],
                    !.respCh = Tail(@), !.spc = "returned"]
            ELSE [st EXCEPT
                    !.result = [resp |-> NoResp, err |-> Head(st.errCh)],
                    !.errCh = Tail(@), !.spc = "returned"]
      [] step = "readCall" ->
            \* once.Do(func() { close(startedCh) }) / close(startRequest)
            [st EXCEPT !.once = TRUE, !.rd = "inRead",
                       !.started = IF st.once THEN @ ELSE @ + 1]
      [] step = "readReturn" ->
            \* the close error of the pipe, or bytes of the pending write
            IF st.pdone
            THEN LET cerr == IF st.pwerr # NoErr THEN st.pwerr
                             ELSE ErrClosedPipe
                 IN [st EXCEPT
                       !.rd = IF st.tr # "running" THEN "stopped"
                              ELSE IF cerr = EOF THEN "eof" ELSE "err",
                       !.bodyErr = IF st.tr = "running" /\ cerr # EOF
                                   THEN cerr ELSE @]
            ELSE [st EXCEPT
                    !.delivered = @ \o ReadCopy(Head(st.wq).data, x).got,
                    !.wq[1].data = ReadCopy(Head(st.wq).data, x).rest,
                    !.rd = IF st.tr # "running" THEN "stopped" ELSE "idle"]
      [] step = "fail" ->
            \* the error of the failed body read, or the transport's own
            [st EXCEPT !.errCh = Append(@, IF st.rd = "err" THEN st.bodyErr
                                           ELSE ErrTransport),
                       !.tr = "returned",
                       !.rd = IF st.rd = "inRead" THEN @ ELSE "stopped"]
      [] step = "respond" ->
            [st EXCEPT !.respCh = Append(@, Resp), !.tr = "returned",
                       !.rd = "stopped"]

\* one step of both implementations, with the same input
EqStep(step) ==
    /\ \E x \in StepInputs(step) :
          /\ MEnabled(eq.s, step, x)
          /\ MEnabled(eq.r, step, x)
          /\ eq' = [s |-> MApply(eq.s, step, x), r |-> MApply(eq.r, step, x)]
    /\ UNCHANGED <<script, cpc, bodyCh, bodyClosed, enqueued, wpc, cur, nread,
                   creads, taken, failures, wg, mw, header, hcalls, fcalls,
                   late, rejected, wq, pdone, pwerr, started, once, readers,
                   tr, rd, bodyErr, respCh, errCh, spc, result, delivered,
                   written, builder, race, conc, delay, again>>

NextEquiv ==
    \/ EqStep("call")
    \/ EqStep("recv")
    \/ EqStep("exit")
    \/ EqStep("write")
    \/ EqStep("launch")
    \/ EqStep("closeQueue")
    \/ EqStep("mwClose")
    \/ EqStep("pwClose")
    \/ EqStep("select")
    \/ EqStep("readCall")
    \/ EqStep("readReturn")
    \/ EqStep("fail")
    \/ EqStep("respond")

SpecEquiv == InitEquiv /\ [][NextEquiv]_vars

----------------------------------------------------------------------------
(* signalReader.Read called by several goroutines at once on a builder     *)
(* with no item: sync.Once lets a caller that finds the flag unset take    *)
(* the slow path, where the flag is tested again under the Once's mutex.   *)

InitGate ==
    /\ Init
    /\ \A c \in Callers : script[c] = <<>>
    /\ mw.boundary = "b1"

\* Read is entered; r.once.Do looks at the done flag
GateReadCall(k) ==
    /\ readers[k].pc = "idle"
    /\ readers[k].n < MaxGateReads
    /\ readers' = [readers EXCEPT ![k].pc = IF once THEN "read" ELSE "slow"]
    /\ UNCHANGED <<script, cpc, bodyCh, bodyClosed, enqueued, wpc, cur, nread,
                   creads, taken, failures, wg, mw, header, hcalls, fcalls,
                   late, rejected, wq, pdone, pwerr, started, once, tr, rd,
                   bodyErr, respCh, errCh, spc, result, delivered, written,
                   builder, race, conc, delay, again, eq>>

\* the slow path of r.once.Do, under its mutex; then r.reader.Read(p) is called
GateOnceSlow(k) ==
    /\ readers[k].pc = "slow"
    /\ once' = OnceDo.once
    /\ started' = OnceDo.started
    /\ readers' = [readers EXCEPT ![k].pc = "read"]
    /\ UNCHANGED <<script, cpc, bodyCh, bodyClosed, enqueued, wpc, cur, nread,
                   creads, taken, failures, wg, mw, header, hcalls, fcalls,
                   late, rejected, wq, pdone, pwerr, tr, rd, bodyErr, respCh,
                   errCh, spc, result, delivered, written, builder, race,
                   conc, delay, again, eq>>

\* r.reader.Read(p) returns; with nothing written that is when the pipe closes
GateReadReturn(k) ==
    /\ readers[k].pc = "read"
    /\ pdone
    /\ readers' = [readers EXCEPT ![k] = [pc |-> "idle", n |-> @.n + 1]]
    /\ UNCHANGED <<script, cpc, bodyCh, bodyClosed, enqueued, wpc, cur, nread,
                   creads, taken, failures, wg, mw, header, hcalls, fcalls,
                   late, rejected, wq, pdone, pwerr, started, once, tr, rd,
                   bodyErr, respCh, errCh, spc, result, delivered, written,
                   builder, race, conc, delay, again, eq>>

\* m.pw.Close() by the producer side
GateClose ==
    /\ ~pdone
    /\ pdone' = TRUE
    /\ pwerr' = StoreOnce(pwerr, EOF)
    /\ UNCHANGED <<script, cpc, bodyCh, bodyClosed, enqueued, wpc, cur, nread,
                   creads, taken, failures, wg, mw, header, hcalls, fcalls,
                   late, rejected, wq, started, once, readers, tr, rd,
                   bodyErr, respCh, errCh, spc, result, delivered, written,
                   builder, race, conc, delay, again, eq>>

NextGate ==
    \/ \E k \in Readers : GateReadCall(k)
    \/ \E k \in Readers : GateOnceSlow(k)
    \/ \E k \in Readers : GateReadReturn(k)
    \/ GateClose

SpecGate == InitGate /\ [][NextGate]_vars

----------------------------------------------------------------------------
(* What the properties are stated in                                       *)

IsPrefix(a, b) == Len(a) <= Len(b) /\ SubSeq(b, 1, Len(a)) = a

\* the bytes of one section as RFC 7578 frames it: delimiter, disposition,
\* then the value, or every chunk the content stream yields
Section(req, bnd, first) ==
    << [t |-> "delim", k |-> <<bnd, IF first THEN 0 ELSE 1>>, n |-> 0],
       [t |-> "disp", k |-> req.key,
        n |-> IF req.reqType = fileType THEN 1 ELSE 0] >>
    \o [i \in 1..(IF req.reqType = stringType THEN 1 ELSE req.content.chunks)
           |-> [t |-> "data", k |-> req.key, n |-> i]]

RECURSIVE Sections(_, _, _)
Sections(reqs, bnd, first) ==
    IF reqs = <<>> THEN <<>>
    ELSE Section(Head(reqs), bnd, first) \o Sections(Tail(reqs), bnd, FALSE)

ClosingBoundary(bnd) == << [t |-> "close", k |-> <<bnd, 1>>, n |-> 0] >>

\* the keys of the sections whose disposition header the consumer has read
RECURSIVE SectionKeys(_)
SectionKeys(bytes) ==
    IF bytes = <<>> THEN <<>>
    ELSE IF Head(bytes).t = "disp"
         THEN <<Head(bytes).k>> \o SectionKeys(Tail(bytes))
         ELSE SectionKeys(Tail(bytes))

EnqueuedKeys == [i \in 1..Len(enqueued) |-> enqueued[i].key]

\* position of the item with key k in the order of enqueue completion
PosOf(k) == CHOOSE i \in 1..Len(enqueued) : enqueued[i].key = k

----------------------------------------------------------------------------
(* C1: order preservation.  The worker dequeues in the order the enqueue   *)
(* calls completed and the consumer reads the sections in that order: the  *)
(* sections read so far are those of the first enqueued items, in order,   *)
(* byte for byte; when the consumer reaches clean end-of-stream it has     *)
(* read the section of every enqueued item once, in enqueue order,         *)
(* followed by the closing boundary.                                       *)
C1_OrderPreserved ==
    /\ IsPrefix(taken, EnqueuedKeys)
    /\ IsPrefix(SectionKeys(delivered), EnqueuedKeys)
    /\ \/ IsPrefix(delivered, Sections(enqueued, mw.boundary, TRUE))
       \/ delivered = Sections(enqueued, mw.boundary, TRUE)
                         \o ClosingBoundary(mw.boundary)
    /\ rd = "eof" =>
          delivered = Sections(enqueued, mw.boundary, TRUE)
                         \o ClosingBoundary(mw.boundary)

\* two goroutines appended three items between them, B's call completed
\* first, and the transport has read the whole body
C1_Witness ==
    /\ rd = "eof"
    /\ Len(enqueued) = 3
    /\ enqueued[1].key[1] = "B"
    /\ enqueued[2].key[1] = "A"
    /\ SectionKeys(delivered) = EnqueuedKeys

----------------------------------------------------------------------------
(* C2: no hang under cancellation before the first read.  Send is never    *)
(* left waiting at <-m.startedCh once the transport call has finished      *)
(* without ever reading the body (from there the gate can no longer fire). *)
C2_SendLeavesGateWhenTransportDone ==
    ~(spc = "awaitStart" /\ tr = "returned" /\ started = 0)

----------------------------------------------------------------------------
(* C3: when the transport has stopped consuming the body while the worker  *)
(* is blocked in a pipe write, the pipe is aborted, so that the write      *)
(* returns an error and the worker terminates.                             *)
C3_WorkerWokenWhenTransportGone ==
    (tr = "returned" /\ rd = "stopped"
        /\ InWrite("worker") /\ ~WriteDone("worker")) => pdone

----------------------------------------------------------------------------
(* C4: error short-circuit.                                                *)

\* the sections of the items enqueued before the one whose encode failed
SectionsBeforeFailure ==
    Sections(SubSeq(enqueued, 1, PosOf(failures[1].key) - 1), mw.boundary, TRUE)

----------------------------------------------------------------------------
(* C5: after the first encode error the worker has aborted the pipe with   *)
(* that error and has stopped: the failing item is the last one it took,   *)
(* no later item is dequeued or encoded, and no byte of a later section    *)
(* (nor the closing boundary) reaches the consumer.                        *)
C5_WorkerStopsAtFirstFailure ==
    failures # <<>> =>
        /\ Len(failures) = 1
        /\ wpc = "done"
        /\ pdone
        /\ pwerr = failures[1]
        /\ Len(taken) = PosOf(failures[1].key)
        /\ taken[Len(taken)] = failures[1].key
        /\ \A i \in 1..Len(delivered) :
              /\ delivered[i].t # "close"
              /\ delivered[i].t \in {"disp", "data"} =>
                    PosOf(delivered[i].k) <= PosOf(failures[1].key)

\* the first item failed while two more were queued behind it, and Send
\* has run to its end
C5_Witness ==
    /\ spc = "returned"
    /\ failures # <<>>
    /\ PosOf(failures[1].key) = 1
    /\ Len(enqueued) = 3
    /\ Len(bodyCh) = 2

----------------------------------------------------------------------------
(* C6: empty-body termination.  With no item appended, as long as the      *)
(* transport has not failed some goroutine can always take a step until    *)
(* Send has returned; the body the consumer reads up to end-of-stream is   *)
(* the closing boundary alone; and a Send that returns a response returns  *)
(* it with no error, after exactly that body.                              *)

NoItems == \A c \in Callers : script[c] = <<>>

\* the steps of a run in which the transport reads and answers
Cooperate ==
    \/ WorkerRecv \/ WorkerStep \/ WorkerExit
    \/ SendLaunch \/ SendCloseQueue \/ SendMwClose \/ SendPwClose \/ SendSelect
    \/ TransportReadCall \/ TransportReadReturn \/ TransportRespond

C6_EmptyBodyTerminates ==
    NoItems =>
        /\ (spc # "returned" /\ errCh = <<>>) => ENABLED Cooperate
        /\ rd = "eof" => delivered = ClosingBoundary(mw.boundary)
        /\ (spc = "returned" /\ result.resp = Resp) =>
              /\ result.err = NoErr
              /\ delivered = ClosingBoundary(mw.boundary)

\* Send returned the response of a request with no item
C6_Witness ==
    /\ NoItems
    /\ spc = "returned"
    /\ result.resp = Resp
    /\ delivered = ClosingBoundary(mw.boundary)

----------------------------------------------------------------------------
(* C7: an enqueue call issued before Send never blocks forever: while a    *)
(* caller still has an append to complete, some goroutine can take a step  *)
(* (otherwise the append, and the Send behind it, never happen).           *)
C7_EnqueueNeverBlocksForever ==
    (\E c \in Callers : cpc[c] < Len(script[c])) => ENABLED Next

----------------------------------------------------------------------------
(* C8: with Param/File calls issued by two goroutines, every section the   *)
(* consumer reads is contiguous (no byte of another section or of the      *)
(* closing boundary between its first and last byte) and appears at most   *)
(* once; at end-of-stream each appended item's section is there exactly    *)
(* once and whole.                                                         *)

SectionPositions(k) ==
    {i \in 1..Len(delivered) :
        delivered[i].t \in {"disp", "data"} /\ delivered[i].k = k}

Occurrences(tok) == Cardinality({i \in 1..Len(delivered) : delivered[i] = tok})

WholeSectionAt(req, p) ==
    LET sec == Section(req, mw.boundary, p = 1)
    IN /\ p + Len(sec) - 1 <= Len(delivered)
       /\ SubSeq(delivered, p, p + Len(sec) - 1) = sec

C8_SectionsContiguousOnce ==
    /\ \A j \in 1..Len(enqueued) :
          LET k == enqueued[j].key
          IN /\ \A a, b \in SectionPositions(k) :
                   \A x \in a..b : x \in SectionPositions(k)
             /\ \A i \in SectionPositions(k) : Occurrences(delivered[i]) = 1
    /\ rd = "eof" =>
          \A j \in 1..Len(enqueued) :
             /\ Occurrences([t |-> "disp", k |-> enqueued[j].key,
                             n |-> IF enqueued[j].reqType = fileType
                                   THEN 1 ELSE 0]) = 1
             /\ \E p \in 1..Len(delivered) : WholeSectionAt(enqueued[j], p)

\* A and B each issued one Param, B's completed first, and the whole body
\* has been read
C8_Witness ==
    /\ rd = "eof"
    /\ Len(script["A"]) = 1 /\ Len(script["B"]) = 1
    /\ script["A"][1] = "param" /\ script["B"][1] = "param"
    /\ EnqueuedKeys = << <<"B", 1>>, <<"A", 1>> >>

----------------------------------------------------------------------------
(* C9: single writer.  At most one goroutine is inside a pipe write at any *)
(* time; while the worker runs, every write in progress is the worker's;   *)
(* Send writes the closing boundary and closes the producer side only      *)
(* after the worker has terminated.                                        *)
C9_SingleWriter ==
    /\ Len(wq) <= 1
    /\ wpc # "done" => ~InWrite("send")
    /\ spc \in {"mwClose", "select", "returned"} => (wpc = "done" /\ wg = 0)
    /\ pdone => wpc = "done"

\* Send is writing the closing boundary after the worker drained three items
C9_Witness ==
    /\ spc = "mwClose"
    /\ InWrite("send")
    /\ Len(taken) = 3
    /\ wpc = "done"

----------------------------------------------------------------------------
(* C10: exactly one outcome.  The transport goroutine puts exactly one     *)
(* value on exactly one of respCh and errCh, and Send returns either a     *)
(* response with no error or an error with no response.                    *)
C10_ExactlyOneOutcome ==
    /\ Len(respCh) + Len(errCh) <= 1
    /\ tr # "returned" => (respCh = <<>> /\ errCh = <<>> /\ spc # "returned")
    /\ tr = "returned" =>
          Len(respCh) + Len(errCh) + (IF spc = "returned" THEN 1 ELSE 0) = 1
    /\ spc = "returned" =>
          \/ result.resp = Resp /\ result.err = NoErr
          \/ result.resp = NoResp /\ result.err # NoErr
    /\ spc # "returned" => result = [resp |-> NoResp, err |-> NoErr]

\* Send returned the transport's error and both channels are empty
C10_Witness ==
    /\ spc = "returned"
    /\ result.err = ErrTransport
    /\ result.resp = NoResp
    /\ respCh = <<>> /\ errCh = <<>>

----------------------------------------------------------------------------
(* C11: no goroutine is left behind.  In every state in which Send has     *)
(* returned, the worker has terminated (the WaitGroup is at zero and no    *)
(* pipe write is in progress), the transport goroutine has delivered its   *)
(* result and returned, and the pipe is closed, so that no read of the     *)
(* body can block any more.                                                *)
C11_NothingRunsAfterSend ==
    spc = "returned" =>
        /\ wpc = "done"
        /\ wg = 0
        /\ wq = <<>>
        /\ tr = "returned"
        /\ respCh = <<>> /\ errCh = <<>>
        /\ pdone

\* Send returned a response after the worker had encoded two items
C11_Witness ==
    /\ spc = "returned"
    /\ result.resp = Resp
    /\ Len(taken) = 2
    /\ wpc = "done"

----------------------------------------------------------------------------
(* C12: the gate fires exactly once.  With several goroutines reading the  *)
(* signalReader, startedCh is never closed twice; it is closed as soon as  *)
(* one Read has got past r.once.Do, every Read that is past it finds the   *)
(* gate fired, and a fired gate never goes back.                           *)
C12_GateFiresOnce ==
    /\ [](/\ started <= 1
          /\ once <=> (started = 1)
          /\ \A k \in Readers :
                (readers[k].pc = "read" \/ readers[k].n > 0) => started = 1
          /\ started = 1 =>
                \E k \in Readers : readers[k].pc = "read" \/ readers[k].n > 0)
    /\ [][started' >= started /\ (once => once')]_vars

\* two goroutines found the flag unset; one has fired the gate and is
\* reading, the other is still on the slow path
C12_Witness ==
    /\ started = 1
    /\ readers["r1"].pc = "slow"
    /\ readers["r2"].pc = "read"
    /\ readers["r3"].n = 1

----------------------------------------------------------------------------
(* C13: the order of Send's steps.  The transport is launched before       *)
(* anything else; the queue is closed only once the gate has fired; the    *)
(* closing boundary is written only once the worker has terminated; the    *)
(* producer side is closed by Send only after that write has returned;     *)
(* the result is taken only after the producer side is closed; and Send    *)
(* never goes back or skips a step (a Close that has nothing to write      *)
(* goes straight on to closing the pipe).                                  *)

SendRank(p) ==
    CASE p = "open" -> 0
      [] p = "awaitStart" -> 1
      [] p = "wgWait" -> 2
      [] p = "mwClose" -> 3
      [] p = "select" -> 4
      [] p = "returned" -> 5

BoundaryWritten == \E i \in 1..Len(written) : written[i].t = "close"

C13_SendStepOrder ==
    /\ [](/\ (tr = "idle") <=> (spc = "open")
          /\ spc = "open" => (~bodyClosed /\ ~pdone /\ started = 0)
          /\ bodyClosed <=> (SendRank(spc) >= 2)
          /\ bodyClosed => started = 1
          /\ BoundaryWritten => (SendRank(spc) >= 3 /\ wpc = "done")
          /\ SendRank(spc) >= 3 => wpc = "done"
          /\ pwerr = EOF => (BoundaryWritten /\ ~InWrite("send"))
          /\ SendRank(spc) >= 4 => (pdone /\ ~InWrite("send"))
          /\ result # [resp |-> NoResp, err |-> NoErr] => SendRank(spc) = 5)
    /\ [][\/ SendRank(spc') = SendRank(spc)
          \/ SendRank(spc') = SendRank(spc) + 1
          \/ (spc = "wgWait" /\ spc' = "select" /\ mw.we # NoErr)]_vars

\* Send has closed the producer side after two items and waits for the
\* result of a transport that is still running
C13_Witness ==
    /\ spc = "select"
    /\ pwerr = EOF
    /\ Len(enqueued) = 2
    /\ tr = "running"

----------------------------------------------------------------------------
(* C14: whenever the transport call has completed with an error (before    *)
(* the first read, in the middle of the body, or after the end of the      *)
(* stream), Send returns, and returns that error unchanged: an error       *)
(* handed over by the transport goroutine is never left in errCh with      *)
(* nothing able to run, and an error Send has returned is the one the      *)
(* transport call produced.                                                *)
C14_SendReturnsTransportError ==
    /\ (errCh # <<>> /\ spc # "returned") => ENABLED Next
    /\ (spc = "returned" /\ result.err # NoErr) =>
            /\ result.resp = NoResp
            /\ result.err = (IF bodyErr # NoErr THEN bodyErr ELSE ErrTransport)

----------------------------------------------------------------------------
(* C15: an abort of the pipe is irreversible.  Once the worker has aborted *)
(* it with an encode error, the pipe stays closed with that error: every   *)
(* read that returns afterwards returns that error and no byte, the        *)
(* consumer never sees a clean end-of-stream, and the closing-boundary     *)
(* write and the Close that Send still performs deliver nothing and leave  *)
(* the stored error as it is.                                              *)
C15_AbortIsIrreversible ==
    /\ [](failures # <<>> =>
            /\ pdone
            /\ pwerr = failures[1]
            /\ ReadCloseError = failures[1]
            /\ rd # "eof"
            /\ rd = "err" => bodyErr = failures[1]
            /\ bodyErr \in {NoErr, failures[1]}
            /\ result.resp = NoResp)
    /\ [][failures # <<>> =>
            /\ delivered' = delivered
            /\ pwerr' = pwerr
            /\ pdone'
            /\ (rd = "inRead" /\ rd' # "inRead") =>
                  /\ rd' \in {"err", "stopped"}
                  /\ tr = "running" => bodyErr' = failures[1]]_vars

\* the worker aborted, Send went on to write the closing boundary and close
\* the pipe, and the consumer still got the encode error and no boundary
C15_Witness ==
    /\ failures # <<>>
    /\ BoundaryWritten
    /\ spc = "select"
    /\ rd = "err"
    /\ bodyErr = failures[1]
    /\ delivered # <<>>

----------------------------------------------------------------------------
(* C16: on a run without an encode error the closing boundary reaches the  *)
(* consumer exactly once, right after the last byte of the last section    *)
(* and before the clean end-of-stream, and it never reaches the consumer   *)
(* on any other run.  For Param(a,1), Param(b,2), File(f,x.txt,hi) and     *)
(* then Send, the body read up to end-of-stream is exactly those three     *)
(* sections in that order followed by the closing boundary.                *)

ClosePositions == {i \in 1..Len(delivered) : delivered[i].t = "close"}

ParamParamFile ==
    /\ script["A"] = <<"param", "param", "file">>
    /\ script["B"] = <<>>

ParamParamFileBody ==
    << Tok("delim", <<mw.boundary, 0>>, 0),
       Tok("disp",  <<"A", 1>>, 0),
       Tok("data",  <<"A", 1>>, 1),
       Tok("delim", <<mw.boundary, 1>>, 0),
       Tok("disp",  <<"A", 2>>, 0),
       Tok("data",  <<"A", 2>>, 1),
       Tok("delim", <<mw.boundary, 1>>, 0),
       Tok("disp",  <<"A", 3>>, 1),
       Tok("data",  <<"A", 3>>, 1),
       Tok("close", <<mw.boundary, 1>>, 0) >>

C16_BoundaryOnceAtEnd ==
    /\ [](/\ Cardinality(ClosePositions) <= 1
          /\ \A i \in ClosePositions :
                /\ i = Len(delivered)
                /\ failures = <<>>
                /\ bodyClosed /\ bodyCh = <<>> /\ wpc = "done"
                /\ SubSeq(delivered, 1, i - 1) =
                       Sections(enqueued, mw.boundary, TRUE)
          /\ rd = "eof" =>
                /\ failures = <<>>
                /\ ClosePositions = {Len(delivered)}
          /\ (failures = <<>> /\ spc = "returned" /\ result.resp = Resp) =>
                ClosePositions = {Len(delivered)}
          /\ (ParamParamFile /\ rd = "eof") => delivered = ParamParamFileBody)
    /\ [][(rd # "eof" /\ rd' = "eof") =>
              /\ ClosePositions = {Len(delivered)}
              /\ delivered' = delivered]_vars

\* Param, Param, File and Send: the transport has read the body to its
\* clean end and Send has returned the response
C16_Witness ==
    /\ ParamParamFile
    /\ failures = <<>>
    /\ spc = "returned"
    /\ result.resp = Resp
    /\ delivered = ParamParamFileBody

----------------------------------------------------------------------------
(* C17: the pipe holds at most one write that the consumer has not fully   *)
(* read.  A write of the worker or of Send returns only when the consumer  *)
(* has read all its bytes or the pipe has been closed or aborted, so       *)
(* while the pipe is open everything written before the pending write has  *)
(* been read: the producer is never more than one write ahead.             *)

WriteLeaves ==
    \/ wpc \in {"head", "body"} /\ (wpc' # wpc \/ written' # written)
    \/ spc = "mwClose" /\ spc' # spc

C17_OneWriteInFlight ==
    /\ [](/\ Len(wq) <= 1
          /\ InWrite("worker") <=> (wpc \in {"head", "body"})
          /\ InWrite("send") <=> (spc = "mwClose")
          /\ (~pdone /\ wq # <<>>) => written = delivered \o Head(wq).data
          /\ (~pdone /\ wq = <<>>) => written = delivered)
    /\ [][WriteLeaves => (pdone \/ Head(wq).data = <<>>)]_vars

\* the consumer has read the delimiter of a section header and not yet its
\* disposition line: the worker is held in that write with an item queued
C17_Witness ==
    /\ ~pdone
    /\ wpc = "head"
    /\ wq # <<>>
    /\ Len(Head(wq).data) = 1
    /\ Len(delivered) = 1
    /\ bodyCh # <<>>

----------------------------------------------------------------------------
(* C18: in every reachable state the bytes the consumer has read are a     *)
(* prefix of the bytes the producer has written: nothing is reordered,     *)
(* duplicated or skipped, and what has been read is never taken back.      *)
C18_ReadIsPrefixOfWritten ==
    /\ [](/\ Len(delivered) <= Len(written)
          /\ \A i \in 1..Len(delivered) : delivered[i] = written[i])
    /\ [][/\ IsPrefix(delivered, delivered')
          /\ IsPrefix(written, written')]_vars

\* the consumer is part-way through the second section: it has read the
\* first section and the delimiter of the second, whose disposition line
\* is still pending
C18_Witness ==
    /\ Len(delivered) = 4
    /\ Len(written) = 5
    /\ delivered[4].t = "delim"
    /\ rd = "inRead"

----------------------------------------------------------------------------
(* C19: no data is silently dropped.  When the consumer gets a clean       *)
(* end-of-stream it has received every byte the producer wrote; a pipe     *)
(* that is closed in any other way is aborted with the worker's encode     *)
(* error, and a read of the consumer that returns from it returns that     *)
(* error, never a clean end-of-stream.                                     *)
C19_NoSilentDrop ==
    /\ [](/\ rd = "eof" =>
                (delivered = written /\ pwerr = EOF /\ wq = <<>>)
          /\ pdone =>
                \/ /\ pwerr = EOF
                   /\ failures = <<>>
                   /\ delivered = written
                \/ /\ failures # <<>>
                   /\ pwerr = failures[1]
                   /\ ReadCloseError \notin {NoErr, EOF, ErrClosedPipe}
          /\ (pdone /\ delivered # written) =>
                (rd # "eof" /\ (rd = "err" => bodyErr = pwerr)))
    /\ [][(pdone /\ tr = "running" /\ rd = "inRead" /\ rd' # "inRead") =>
              IF pwerr = EOF
              THEN rd' = "eof" /\ delivered = written
              ELSE rd' = "err" /\ bodyErr' = pwerr /\ bodyErr' # NoErr]_vars

\* two fields were sent and the transport, still running, has read all
\* seven runs of bytes and then the clean end-of-stream
C19_Witness ==
    /\ rd = "eof"
    /\ tr = "running"
    /\ Len(written) = 7
    /\ delivered = written

----------------------------------------------------------------------------
(* C20: for any number of appended items, none included, the boundary in   *)
(* the Content-Type header of the request is the boundary of every         *)
(* section delimiter and of the terminating delimiter written to the       *)
(* body; the boundary is chosen when the builder is created and neither    *)
(* the writer's boundary nor the header changes afterwards.                *)

Delimiters(bytes) ==
    {i \in 1..Len(bytes) : bytes[i].t \in {"delim", "close"}}

C20_BoundaryConsistent ==
    /\ [](/\ header["Content-Type"].media = "multipart/form-data"
          /\ header["Content-Type"].boundary = mw.boundary
          /\ \A i \in Delimiters(written) :
                written[i].k[1] = header["Content-Type"].boundary
          /\ \A i \in Delimiters(delivered) :
                delivered[i].k[1] = header["Content-Type"].boundary
          /\ (spc = "returned" /\ result.resp = Resp) =>
                Cardinality(Delimiters(delivered)) = Len(enqueued) + 1)
    /\ [][mw.boundary' = mw.boundary /\ header' = header]_vars

\* a builder created with the second boundary has sent three items: three
\* section delimiters and the terminating one have been read
C20_Witness ==
    /\ mw.boundary = "b2"
    /\ Len(enqueued) = 3
    /\ spc = "returned"
    /\ result.resp = Resp
    /\ Cardinality(Delimiters(delivered)) = 4

----------------------------------------------------------------------------
(* C21: headers set in the chain before Send.                              *)

CallsNaming(k) ==
    {i \in 1..Len(hcalls) : CanonicalKey(hcalls[i].name) = k}

LastCallNaming(k) ==
    hcalls[CHOOSE i \in CallsNaming(k) : \A j \in CallsNaming(k) : j <= i]

\* Header steps touch neither the queue nor the body, Param/File steps
\* leave the header set alone, and nothing changes it once Send has
\* handed the request to the transport
HeaderFrame ==
    /\ hcalls' # hcalls =>
          /\ Len(hcalls') = Len(hcalls) + 1
          /\ bodyCh' = bodyCh
          /\ enqueued' = enqueued
          /\ written' = written
          /\ header'["Content-Type"] = header["Content-Type"]
    /\ enqueued' # enqueued => (header' = header /\ hcalls' = hcalls)
    /\ tr # "idle" => (header' = header /\ hcalls' = hcalls)

(* C21 as stated: every Header(name, value) call completed before Send is  *)
(* in the request the transport receives, wherever it stands among the     *)
(* Param/File calls; Header never enqueues an item and Param/File never    *)
(* change the header set.                                                  *)
C21_EveryHeaderCallPresent ==
    /\ [](tr # "idle" =>
            \A i \in 1..Len(hcalls) :
                /\ CanonicalKey(hcalls[i].name) \in DOMAIN header
                /\ header[CanonicalKey(hcalls[i].name)] = hcalls[i].value)
    /\ [][HeaderFrame]_vars

(* C21 amended: for every header name, the request the transport receives  *)
(* holds, under the canonical spelling of the name, the value of the last  *)
(* Header call completed before Send that named it (an earlier call for    *)
(* the same name is replaced), and no other name besides Content-Type;     *)
(* Header never enqueues an item and Param/File never change the header    *)
(* set.                                                                    *)
C21_LastHeaderCallPresent ==
    /\ [](tr # "idle" =>
            /\ \A k \in DOMAIN header \ {"Content-Type"} : CallsNaming(k) # {}
            /\ \A i \in 1..Len(hcalls) :
                  LET k == CanonicalKey(hcalls[i].name)
                  IN /\ k \in DOMAIN header
                     /\ header[k] = LastCallNaming(k).value)
    /\ [][HeaderFrame]_vars

\* Header, Param, Header with the same name spelled in two ways and two
\* values, then Send: the request went out with the second value
C21_Witness ==
    /\ script["A"] = <<"header", "param", "header">>
    /\ Len(hcalls) = 2
    /\ hcalls[1] = [name |-> "x-custom-header", value |-> "custom-value"]
    /\ hcalls[2] = [name |-> "X-Custom-Header", value |-> "123"]
    /\ spc = "returned"
    /\ result.resp = Resp
    /\ header["X-Custom-Header"] = "123"

----------------------------------------------------------------------------
(* C22: once Send has closed the queue no further item is accepted.  A     *)
(* Param/File call made from then on fails (the channel send panics): it   *)
(* is never blocked, it leaves the queue and the list of accepted items    *)
(* as they are, and no byte of a section for it is ever written or read.   *)

KeysWritten == {written[i].k : i \in 1..Len(written)}

C22_ClosedQueueRejects ==
    /\ [](/\ \A i \in 1..Len(rejected) :
                /\ bodyClosed
                /\ \A j \in 1..Len(enqueued) : enqueued[j].key # rejected[i]
                /\ \A j \in 1..Len(bodyCh) : bodyCh[j].key # rejected[i]
                /\ rejected[i] \notin KeysWritten
          /\ (bodyClosed /\ ~Crashed /\ late < MaxLate) => ENABLED LateEnqueue)
    /\ [][bodyClosed =>
            /\ enqueued' = enqueued
            /\ bodyCh' = bodyCh \/ (bodyCh # <<>> /\ bodyCh' = Tail(bodyCh))
            /\ late' # late =>
                  /\ Len(rejected') = Len(rejected) + 1
                  /\ bodyCh' = bodyCh
                  /\ written' = written
                  /\ delivered' = delivered]_vars

\* a Param call made while Send waited for the first read was accepted;
\* the next one, made after Send had returned the response, panicked
C22_Witness ==
    /\ rejected = << <<"L", 2>> >>
    /\ \E j \in 1..Len(enqueued) : enqueued[j].key = <<"L", 1>>
    /\ spc = "returned"
    /\ result.resp = Resp
    /\ <<"L", 1>> \in KeysWritten

----------------------------------------------------------------------------
(* C23: Bool and Int are formatting wrappers over Param.  Bool(key, v)     *)
(* queues the string item with that key and the text "true" or "false",    *)
(* Int(key, n) the string item with that key and the decimal text of n     *)
(* (digits without leading zero, a minus sign exactly for negative n,      *)
(* reading back as n), which is what Param with that text queues; each     *)
(* call appends that one item and changes nothing else of the builder.     *)

DigitValue(ch) == CHOOSE d \in 0..9 : Digits[d + 1] = ch

RECURSIVE DecimalValue(_)
DecimalValue(digs) ==
    IF digs = <<>> THEN 0
    ELSE 10 * DecimalValue(SubSeq(digs, 1, Len(digs) - 1))
            + DigitValue(digs[Len(digs)])

IsDecimalTextOf(text, n) ==
    LET neg == text # <<>> /\ text[1] = "-"
        digs == IF neg THEN Tail(text) ELSE text
    IN /\ digs # <<>>
       /\ \A i \in 1..Len(digs) : \E d \in 0..9 : Digits[d + 1] = digs[i]
       /\ Len(digs) > 1 => digs[1] # "0"
       /\ neg <=> (n < 0)
       /\ DecimalValue(digs) = (IF n < 0 THEN -n ELSE n)

QueuedAs(call, item) ==
    /\ item.reqType = stringType
    /\ item.key = call.key
    /\ CASE call.method = "Param" -> item.value = call.arg
         [] call.method = "Bool" ->
               item.value = (IF call.arg THEN <<"t", "r", "u", "e">>
                             ELSE <<"f", "a", "l", "s", "e">>)
         [] call.method = "Int" -> IsDecimalTextOf(item.value, call.arg)

C23_BoolIntWrapParam ==
    /\ [](/\ Len(bodyCh) = Len(fcalls)
          /\ enqueued = bodyCh
          /\ \A i \in 1..Len(fcalls) : QueuedAs(fcalls[i], bodyCh[i]))
    /\ [][/\ Len(fcalls') = Len(fcalls) + 1
          /\ bodyCh' = Append(bodyCh, bodyCh'[Len(bodyCh')])
          /\ UNCHANGED <<bodyClosed, wpc, cur, taken, wg, mw, header, wq,
                         pdone, pwerr, started, once, tr, rd, spc, result,
                         delivered, written>>]_vars

\* Int(key1, -120), Bool(key2, false) and Param(key1, "05") were chained
C23_Witness ==
    /\ Len(fcalls) = 3
    /\ fcalls[1].method = "Int"
    /\ fcalls[1].key = "key1"
    /\ fcalls[1].arg = -120
    /\ bodyCh[1].value = <<"-", "1", "2", "0">>
    /\ fcalls[2].method = "Bool"
    /\ fcalls[2].arg = FALSE
    /\ bodyCh[2] = StringRequest("key2", <<"f", "a", "l", "s", "e">>)
    /\ fcalls[3].method = "Param"
    /\ bodyCh[3] = StringRequest("key1", <<"0", "5">>)

----------------------------------------------------------------------------
(* C24: the content stream of a File item is read only by the worker and   *)
(* only while the worker is processing that item: never while the item is  *)
(* still queued, never once the worker has gone on to another item or has  *)
(* aborted, never again after the stream has ended or failed, and never    *)
(* at all for an item left in the queue after an encode error.             *)

ReadsOf(k) == Cardinality({i \in 1..Len(creads) : creads[i] = k})

C24_ContentReadInWindowOnly ==
    /\ [](/\ \A i \in 1..Len(creads) :
                /\ \E j \in 1..Len(taken) : taken[j] = creads[i]
                /\ \A j \in 1..Len(bodyCh) : bodyCh[j].key # creads[i]
                /\ enqueued[PosOf(creads[i])].reqType = fileType
                /\ ReadsOf(creads[i]) <=
                       enqueued[PosOf(creads[i])].content.chunks + 1
                /\ i > 1 => PosOf(creads[i - 1]) <= PosOf(creads[i])
                /\ failures # <<>> =>
                       PosOf(creads[i]) <= PosOf(failures[1].key)
          /\ (failures # <<>> /\ failures[1].kind = "content") =>
                creads[Len(creads)] = failures[1].key)
    /\ [][creads' # creads =>
              /\ wpc \in {"head", "body"}
              /\ cur.reqType = fileType
              /\ creads' = Append(creads, cur.key)
              /\ taken[Len(taken)] = cur.key]_vars

\* the first file's stream failed on its second read; the file queued
\* behind it was left in the queue and its stream was never read
C24_Witness ==
    /\ script["A"] = <<"badfile", "file">>
    /\ script["B"] = <<>>
    /\ failures = <<ErrContent(<<"A", 1>>)>>
    /\ creads = << <<"A", 1>>, <<"A", 1>> >>
    /\ Len(bodyCh) = 1
    /\ bodyCh[1].key = <<"A", 2>>
    /\ spc = "returned"

----------------------------------------------------------------------------
(* C25: the stats of the file-writing Builder.  When Build has returned,   *)
(* stats["string"] is the number of String calls and stats["json"] the     *)
(* number of JSON calls whose part content was written; until then no      *)
(* count is ahead of the items processed; after Build has returned the     *)
(* map does not change any more.                                           *)

CallsOf(ft) ==
    {i \in 1..Len(builder.appended) : builder.appended[i].FileType = ft}

ContentIn(bytes) ==
    {i \in 1..Len(builder.appended) :
        \E j \in 1..Len(bytes) :
            bytes[j] = Tok("data", builder.appended[i].key, 1)}

C25_StatsCountCalls ==
    /\ [](/\ builder.stats.string <= Cardinality(CallsOf("string"))
          /\ builder.stats.json <=
                Cardinality(CallsOf("json") \cap ContentIn(builder.written))
          /\ builder.bpc = "returned" =>
                /\ Len(builder.appended) = Len(builder.chain)
                /\ builder.stats.string = Cardinality(CallsOf("string"))
                /\ CallsOf("string") \subseteq ContentIn(builder.output)
                /\ builder.stats.json =
                      Cardinality(CallsOf("json")
                                    \cap ContentIn(builder.output))
                /\ builder.stats.json =
                      Cardinality({i \in CallsOf("json") :
                                      builder.appended[i].marshals}))
    /\ [][builder.bpc = "returned" => builder.stats' = builder.stats]_vars

\* String, JSON and a JSON whose value does not marshal, then Build
C25_Witness ==
    /\ builder.chain = <<"string", "json", "badjson">>
    /\ builder.bpc = "returned"
    /\ builder.stats = [string |-> 1, json |-> 1]

----------------------------------------------------------------------------
(* C26: when Build has returned, the goroutine copying the pipe into the   *)
(* output has terminated, having received and written out every byte the   *)
(* worker wrote for every appended item, in append order: the output read  *)
(* right after Build holds the section of every item.                      *)

ItemRequest(d) ==
    [reqType |-> IF d.FileType = "string" THEN stringType ELSE fileType,
     key |-> d.key,
     content |-> [chunks |-> IF d.marshals THEN 1 ELSE 0, fails |-> FALSE]]

ItemSections ==
    Sections([i \in 1..Len(builder.appended) |->
                 ItemRequest(builder.appended[i])],
             builder.mw.boundary, TRUE)

ItemBytes(bytes) == SelectSeq(bytes, LAMBDA tok : tok.t # "close")

C26_OutputCompleteAtBuild ==
    /\ IsPrefix(builder.output \o builder.cbuf, builder.written)
    /\ IsPrefix(builder.output, ItemSections)
    /\ builder.bpc = "returned" =>
          /\ builder.cp = "done"
          /\ builder.wpc = "done"
          /\ builder.wg = 0
          /\ builder.cbuf = <<>>
          /\ ~builder.inWrite
          /\ builder.output = ItemBytes(builder.written)
          /\ builder.output = ItemSections
          /\ \A i \in 1..Len(builder.chain) :
                \E j \in 1..Len(builder.output) :
                    builder.output[j] = Tok("disp", <<"A", i>>,
                        IF builder.chain[i] = "string" THEN 0 ELSE 1)

\* String, String, JSON and Build, as in TestBuilder: the nine runs of
\* bytes of the three sections are in the output
C26_Witness ==
    /\ builder.chain = <<"string", "string", "json">>
    /\ builder.bpc = "returned"
    /\ Len(builder.output) = 9
    /\ builder.output[9] = Tok("data", <<"A", 3>>, 1)

----------------------------------------------------------------------------
(* C29: when Build has returned, the bytes in the output end with the      *)
(* terminating boundary: the worker writes the closing boundary before it  *)
(* closes the producer side of the pipe.                                   *)
C29_OutputEndsWithBoundary ==
    /\ builder.pdone =>
          \E j \in 1..Len(builder.written) : builder.written[j].t = "close"
    /\ builder.bpc = "returned" =>
          /\ builder.output # <<>>
          /\ builder.output[Len(builder.output)] =
                Tok("close", <<builder.mw.boundary, 1>>, 0)

----------------------------------------------------------------------------
(* C27: the race-condition demonstration deadlocks on every execution.     *)
(* It always ends up, and stays, in the state where one writer is blocked  *)
(* in its first pipe write with no reader attached, the other two wait     *)
(* for the pipe's write mutex, the closer waits for the writers and main   *)
(* waits on the error channel; there is no other state in which nothing    *)
(* can run, and main never gets to send the request.                       *)

RaceDeadlocked ==
    /\ race.main = "collect"
    /\ race.errChan = <<>>
    /\ ~race.errClosed
    /\ race.closer = "waiting"
    /\ race.wg = 3
    /\ ~race.pdone
    /\ race.captured = <<>>
    /\ race.lock \in Writers
    /\ \A i \in Writers :
          /\ race.w[i].phase = "header"
          /\ race.w[i].pc = IF i = race.lock THEN "writing" ELSE "lockwait"
    /\ Len(race.pending) = 2
    /\ race.pending[2] = Tok("disp", <<"W", race.lock>>,
                             IF race.lock = 3 THEN 1 ELSE 0)

C27_RaceDemoDeadlocks ==
    /\ [](RaceDeadlocked <=> ~ENABLED NextRace)
    /\ [](race.main \notin {"do", "done"})
    /\ [](\A i \in Writers : race.w[i].pc # "done")
    /\ <>[]RaceDeadlocked

\* the deadlock in which the file writer, started last, holds the pipe
C27_Witness ==
    /\ RaceDeadlocked
    /\ race.lock = 3

----------------------------------------------------------------------------
(* Concurrent writers on one multipart writer *)

\* where the t-token of writer i stands in the body client.Do has read
ConcPos(t, i) ==
    {p \in DOMAIN conc.body :
        conc.body[p].t = t /\ conc.body[p].k = <<"W", i>>}

\* bytes of another section stand between the header and the content of
\* the section of some writer
ConcCorrupted ==
    \E i \in Writers : \E p \in ConcPos("disp", i) : \E q \in ConcPos("data", i) :
        q > p + 1

ConcAllSucceeded == \A i \in Writers : conc.w[i].res = "ok"

\* C28: with several goroutines writing to one multipart writer, each
\* single write reaches the reader unbroken (a delimiter is followed by its
\* Content-Disposition line), a writer whose calls reported success has had
\* its header and then its content delivered exactly once, and an error is
\* reported only for a part another goroutine closed or for a closed pipe;
\* none of this keeps another section's bytes from standing between a
\* header and its content (see the witness).
C28_WritesWholeSectionsNot ==
    /\ \A p \in DOMAIN conc.body :
          (conc.body[p].t = "delim" /\ p < Len(conc.body))
              => conc.body[p + 1].t = "disp"
    /\ \A i \in Writers :
          /\ conc.w[i].res = "ok" =>
                /\ Cardinality(ConcPos("disp", i)) = 1
                /\ Cardinality(ConcPos("data", i)) = 1
                /\ \A p \in ConcPos("disp", i) : \A q \in ConcPos("data", i) :
                      p < q
          /\ conc.w[i].res = "err" => (ConcPipeClosed \/ i \in conc.closed)

\* every call reported success, the whole body was read, and the header of
\* one section is separated from its content by another section's bytes
C28_Witness ==
    /\ ConcAllSucceeded
    /\ ConcCorrupted
    /\ conc.reader = "eof"
    /\ conc.body[Len(conc.body)].t = "close"

----------------------------------------------------------------------------
(* Before Send *)

\* C30: until Send is called nothing of the body has reached a reader, no
\* content stream has been read, the worker has taken at most one request
\* and, if it has, is blocked in the pipe write of that request's header, the
\* pipe is neither closed nor failed and no encoding has failed; and at all
\* times the queue holds at most BodyChCap requests.
C30_NothingFlowsBeforeSend ==
    /\ Len(bodyCh) <= BodyChCap
    /\ spc = "open" =>
          /\ delivered = <<>>
          /\ creads = <<>>
          /\ Len(taken) <= 1
          /\ taken # <<>> =>
                /\ wpc = "head"
                /\ InWrite("worker")
                /\ ~WriteReturns("worker")
          /\ taken = <<>> => wpc = "recv"
          /\ ~pdone
          /\ pwerr = NoErr
          /\ failures = <<>>
          /\ tr = "idle"

\* Send not yet called, the queue full, and the worker blocked writing the
\* one request it has taken
C30_Witness ==
    /\ spc = "open"
    /\ Len(bodyCh) = BodyChCap
    /\ Len(taken) = 1
    /\ wpc = "head"
    /\ InWrite("worker")

----------------------------------------------------------------------------
(* Send returns *)

\* C31: when the transport reads the body until end-of-stream or a read
\* error and then returns its result, and every goroutine that can run is
\* scheduled, a Send that has been called returns, whatever was appended
\* before it.
C31_SendReturns == (spc = "awaitStart") ~> (spc = "returned")

\* Send has returned after a chain of MaxItems items of which one failed to
\* encode
C31_Witness ==
    /\ spc = "returned"
    /\ Len(enqueued) = MaxItems
    /\ failures # <<>>
    /\ result.err # NoErr

----------------------------------------------------------------------------
(* Build returns *)

\* C32: for every chain of String / JSON calls Build returns; the pipe is
\* closed only by the worker leaving its loop after close(b.ch), the copying
\* goroutine ends only on the closed pipe, and Build returns only when both
\* goroutines have ended.
C32_BuildTerminates ==
    /\ <>(builder.bpc = "returned")
    /\ [](builder.pdone => (builder.closed /\ builder.wpc \in {"defers", "done"}))
    /\ [](builder.cp = "done" => builder.pdone)
    /\ [](builder.bpc = "returned" =>
            (builder.wpc = "done" /\ builder.cp = "done"))

\* Build has returned after a chain of MaxItems calls
C32_Witness ==
    /\ builder.bpc = "returned"
    /\ builder.calls = MaxItems
    /\ builder.cp = "done"
    /\ builder.wpc = "done"

----------------------------------------------------------------------------
(* The variants that start client.Do in the constructor *)

\* the last Header call of the Request whose name canonicalises to k
RequestLastCall(k) ==
    LET idx == {i \in DOMAIN delay.hcalls :
                   CanonicalKey(delay.hcalls[i].name) = k}
    IN delay.hcalls[CHOOSE i \in idx : \A j \in idx : j <= i]

RequestNamesSet ==
    {CanonicalKey(delay.hcalls[i].name) : i \in DOMAIN delay.hcalls}

\* C33: when Send of the delay-based Request has returned a response, the
\* request the transport sent carries every header that Header() set
\* between NewRequest and Send.
C33_HeaderAfterNewRequestIsSent ==
    (delay.cpc = "returned" /\ delay.result.resp = Resp) =>
        \A k \in RequestNamesSet :
            /\ k \in DOMAIN delay.sent
            /\ delay.sent[k] = RequestLastCall(k).value

\* C34: in the delay-based variants an item whose encoding failed (field
\* write, form-file creation, JSON marshalling or part write) ends the
\* worker's loop, and Send does not return a response.
C34_EncodeFailureFailsSend ==
    delay.failed # <<>> =>
        /\ Len(delay.failed) = 1
        /\ delay.appended[Len(delay.appended)].key = delay.failed[1]
        /\ delay.cpc = "returned" => delay.result.err # NoErr

\* C35: in the delay-based variants every String / JSON call and then Send
\* return, whenever the transport starts, reads or fails: a transport that
\* fails closes the body, so a pending pipe write returns an error and no
\* goroutine stays blocked.
C35_DelaySendReturns ==
    /\ <>(delay.cpc = "returned")
    /\ [](delay.cpc = "returned" =>
            (delay.calls = Len(delay.chain) /\ delay.wpc = "done"
                /\ ~delay.inWrite))

\* Send has returned the transport's error after MaxItems calls although
\* the transport failed before it read anything of the body
C35_Witness ==
    /\ delay.cpc = "returned"
    /\ delay.calls = MaxItems
    /\ delay.delivered = <<>>
    /\ delay.result.err = ErrTransport
    /\ Len(delay.failed) = MaxItems

----------------------------------------------------------------------------
(* Send called twice *)

\* C37: a second call of Send on the same builder starts no second
\* transport call, delivers no second result and changes nothing.
C37_SecondSendRejected ==
    /\ again.tr = "idle"
    /\ again.respCh = <<>>
    /\ again.errCh = <<>>
    /\ again.spc \in {"idle", "rejected"}

----------------------------------------------------------------------------
(* The two Multipart implementations *)

\* what Send has returned: nothing yet, a response, or an error
Outcome(st) ==
    IF st.spc # "returned" THEN "none"
    ELSE IF st.result.err = NoErr THEN "response" ELSE "error"

\* what can be seen of a Multipart from outside: the calls made, the
\* headers of the request, the bytes the consumer got, the item the worker
\* aborted at, how far Send is and what it returned
Observed(st) ==
    [calls |-> st.calls, header |-> st.header, delivered |-> st.delivered,
     aborted |-> st.aborted, spc |-> st.spc, tr |-> st.tr,
     outcome |-> Outcome(st)]

StepNames ==
    {"call", "recv", "exit", "write", "launch", "closeQueue", "mwClose",
     "pwClose", "select", "readCall", "readReturn", "fail", "respond"}

\* the steps one implementation can take are those the other can take
SameSteps ==
    \A step \in StepNames : \A x \in StepInputs(step) :
        MEnabled(eq.s, step, x) <=> MEnabled(eq.r, step, x)

====
